---- MODULE Spec2Model ----
(***************************************************************************)
(* Order validation and transactional commit engine of the restaurant      *)
(* server: POST /api/orders and DELETE /api/orders/:id (server/index.js)   *)
(* on top of ordersDao.createOrder / ordersDao.deleteOrder                 *)
(* (server/dao/dao-orders.js), all running on ONE shared sqlite3           *)
(* connection (server/db.js).                                              *)
(*                                                                         *)
(* One action is one SQL statement executed on the shared connection (or   *)
(* one read of the mutable ingredients table by the route handler); the    *)
(* statements of different requests interleave freely.  Reads of the       *)
(* immutable catalog tables (basedishes, sizes, ingredient_dependencies,   *)
(* ingredient_incompatibilities) commute with everything and are folded    *)
(* into the step that reads the ingredients table.                         *)
(* Money is kept in cents.                                                 *)
(*                                                                         *)
(* Spec       NReq requests interleaved, on a storage that never fails     *)
(* SpecFaulty the same on a storage that may fail any statement            *)
(* SpecLive   two requests of SpecFaulty, every pending callback firing    *)
(* SpecSeq    Spec with slots taken again, up to MaxRequests requests      *)
(* SpecEval   one POST /api/orders over a wider range of request bodies    *)
(* SpecCat    one POST /api/orders over catalogs other than the seeded one  *)
(* SpecList   one GET /api/orders while a DELETE /api/orders/:id runs       *)
(* SpecAuth   login, TOTP verification, logout and DELETE /api/orders/:id   *)
(*            from two browser sessions                                    *)
(* SpecClient the client's OrderConfigurator submitting one order           *)
(***************************************************************************)
EXTENDS Integers, Sequences, FiniteSets, TLC

VARIABLES
  cat,      \* the catalog tables that no request writes
  db,       \* the tables the engine writes, as seen on the connection
  tx,       \* 0, or the request whose BEGIN opened the current transaction
  snap,     \* the value of db when the current transaction began
  req,      \* per request slot: its inputs, position and locals
  faults,   \* number of statements the storage may still fail
  started,  \* number of requests received so far
  sess,     \* per browser session: the express-session record
  ui        \* the state of the client's OrderConfigurator

vars == <<cat, db, tx, snap, req, faults, started, sess, ui>>

----------------------------------------------------------------------------
(* Bounds *)

NReq == 2          \* request slots (requests in flight together)
MaxRequests == 3   \* requests received per behaviour
MaxLen == 2        \* length of a candidate ingredient list in Spec
MaxFaults == 1     \* storage errors per behaviour of SpecFaulty
EvalMaxLen == 4    \* length of a candidate ingredient list in SpecEval

Req == 1..NReq

----------------------------------------------------------------------------
(* Values *)

\* SQL NULL / a non-null integer n in a nullable INTEGER column
Null == <<>>
Some(n) == <<n>>

SeqRange(s) == {s[i] : i \in 1..Len(s)}

Min(S) == CHOOSE x \in S : \A y \in S : x <= y

\* rows of an index scan: ascending key order
RECURSIVE SortedSeq(_)
SortedSeq(S) == IF S = {} THEN <<>> ELSE <<Min(S)>> \o SortedSeq(S \ {Min(S)})

\* all sequences over S of length at most n
RECURSIVE SeqsUpTo(_, _)
SeqsUpTo(S, n) ==
  IF n = 0 THEN {<<>>}
  ELSE LET shorter == SeqsUpTo(S, n - 1)
       IN shorter \cup {Append(s, x) : s \in {t \in shorter : Len(t) = n - 1}, x \in S}

----------------------------------------------------------------------------
(* The seeded database, server/init_db.sql *)

SeedDishes == {1, 2, 3}

SeedSizes ==
  (1 :> [name |-> "Small",  price |-> 500, max_ingredients |-> 3]) @@
  (2 :> [name |-> "Medium", price |-> 700, max_ingredients |-> 5]) @@
  (3 :> [name |-> "Large",  price |-> 900, max_ingredients |-> 7])

SeedIngredients ==
  (1  :> [name |-> "Mozzarella", price |-> 100, availability |-> Some(3)]) @@
  (2  :> [name |-> "Tomatoes",   price |-> 50,  availability |-> Null]) @@
  (3  :> [name |-> "Mushrooms",  price |-> 80,  availability |-> Some(3)]) @@
  (4  :> [name |-> "Ham",        price |-> 120, availability |-> Some(2)]) @@
  (5  :> [name |-> "Olives",     price |-> 70,  availability |-> Null]) @@
  (6  :> [name |-> "Tuna",       price |-> 150, availability |-> Some(2)]) @@
  (7  :> [name |-> "Eggs",       price |-> 100, availability |-> Null]) @@
  (8  :> [name |-> "Anchovies",  price |-> 150, availability |-> Some(1)]) @@
  (9  :> [name |-> "Parmesan",   price |-> 120, availability |-> Null]) @@
  (10 :> [name |-> "Carrots",    price |-> 40,  availability |-> Null]) @@
  (11 :> [name |-> "Potatoes",   price |-> 30,  availability |-> Null])

\* ingredient_dependencies rows <<ingredient_id, depends_on_id>>
SeedDependencies == {<<2, 5>>, <<9, 1>>, <<1, 2>>, <<6, 5>>}

\* ingredient_incompatibilities rows <<ingredient1_id, ingredient2_id>>
SeedIncompatibilities ==
  {<<7, 3>>, <<3, 7>>, <<7, 2>>, <<2, 7>>, <<4, 3>>, <<3, 4>>, <<5, 8>>, <<8, 5>>}

SeedOrders ==
  { [id |-> 1, user_id |-> 1, dish_id |-> 1, size_id |-> 1, total |-> 620],
    [id |-> 2, user_id |-> 1, dish_id |-> 2, size_id |-> 1, total |-> 650],
    [id |-> 3, user_id |-> 2, dish_id |-> 2, size_id |-> 2, total |-> 970],
    [id |-> 4, user_id |-> 2, dish_id |-> 3, size_id |-> 3, total |-> 1160] }

\* order_ingredients rows <<order_id, ingredient_id>>
SeedOrderIngredients ==
  { <<1, 2>>, <<1, 5>>, <<2, 1>>, <<2, 2>>, <<3, 3>>, <<3, 4>>, <<3, 5>>,
    <<4, 6>>, <<4, 5>>, <<4, 10>> }

SeedCatalog ==
  [ basedishes |-> SeedDishes,
    sizes |-> SeedSizes,
    ingredients |-> [i \in DOMAIN SeedIngredients |->
                       [name |-> SeedIngredients[i].name, price |-> SeedIngredients[i].price]],
    ingredient_dependencies |-> SeedDependencies,
    ingredient_incompatibilities |-> SeedIncompatibilities ]

\* availability column of ingredients, the orders and order_ingredients
\* tables, and the AUTOINCREMENT counter of orders (sqlite_sequence)
SeedDb ==
  [ availability |-> [i \in DOMAIN SeedIngredients |-> SeedIngredients[i].availability],
    orders |-> SeedOrders,
    order_ingredients |-> SeedOrderIngredients,
    seq |-> 4 ]

----------------------------------------------------------------------------
(* Catalog reads, server/dao/dao-ingredients.js *)

\* the dependency query with its two columns exchanged
getIngredientDependents(ingredientId) ==
  SortedSeq({e[1] : e \in {d \in cat.ingredient_dependencies : d[2] = ingredientId}})

\* getIngredientDependencies: depends_on_id of the rows of ingredientId
getIngredientDependencies(ingredientId) ==
  SortedSeq({e[2] : e \in {d \in cat.ingredient_dependencies : d[1] = ingredientId}})

\* getIngredientIncompatibilities: ingredient2_id of the rows whose
\* ingredient1_id is ingredientId (one direction only)
getIngredientIncompatibilities(ingredientId) ==
  SortedSeq({e[2] : e \in {d \in cat.ingredient_incompatibilities : d[1] = ingredientId}})

\* getIngredientsByIds: the availability of the rows whose id is in the list
getIngredientsByIds(ids) ==
  [i \in (SeqRange(ids) \cap DOMAIN db.availability) |-> db.availability[i]]

----------------------------------------------------------------------------
(* Responses *)

Reply(status, v, a, b) == [status |-> status, v |-> v, a |-> a, b |-> b]
NoReply == Reply(0, "none", 0, 0)
Pass == Reply(0, "pass", 0, 0)

\* the loop split in two: every candidate's existence, then availability
CheckExistThenAvail(ings, rows) ==
  LET unknown == {i \in 1..Len(ings) : ings[i] \notin DOMAIN rows}
      soldOut == {i \in 1..Len(ings) : ings[i] \in DOMAIN rows /\ rows[ings[i]] = Some(0)}
  IN IF unknown # {} THEN Reply(400, "UnknownIngredient", ings[Min(unknown)], 0)
     ELSE IF soldOut # {} THEN Reply(400, "OutOfStock", ings[Min(soldOut)], 0)
     ELSE Pass

\* the loop without its availability test
CheckExistOnly(ings, rows) ==
  LET unknown == {i \in 1..Len(ings) : ings[i] \notin DOMAIN rows}
  IN IF unknown # {} THEN Reply(400, "UnknownIngredient", ings[Min(unknown)], 0)
     ELSE Pass

\* index.js 150-158: one loop, per candidate existence then availability
CheckExistAvail(ings, rows) ==
  LET bad == {i \in 1..Len(ings) : ings[i] \notin DOMAIN rows \/ rows[ings[i]] = Some(0)}
  IN IF bad = {} THEN Pass
     ELSE LET i == Min(bad)
          IN IF ings[i] \notin DOMAIN rows
             THEN Reply(400, "UnknownIngredient", ings[i], 0)
             ELSE Reply(400, "OutOfStock", ings[i], 0)

\* the size check off by one
CheckSizeLimitOffByOne(ings, sizeId) ==
  IF Len(ings) > cat.sizes[sizeId].max_ingredients + 1
  THEN Reply(400, "SizeLimitExceeded", sizeId, cat.sizes[sizeId].max_ingredients)
  ELSE Pass

\* the size check with a limit of 0 taken as no limit
CheckSizeLimitZeroUnlimited(ings, sizeId) ==
  IF cat.sizes[sizeId].max_ingredients # 0 /\ Len(ings) > cat.sizes[sizeId].max_ingredients
  THEN Reply(400, "SizeLimitExceeded", sizeId, cat.sizes[sizeId].max_ingredients)
  ELSE Pass

\* index.js 160-163
CheckSizeLimit(ings, sizeId) ==
  IF Len(ings) > cat.sizes[sizeId].max_ingredients
  THEN Reply(400, "SizeLimitExceeded", sizeId, cat.sizes[sizeId].max_ingredients)
  ELSE Pass

\* the dependency loop going on after a miss and reporting the last one
CheckDependenciesLast(ings) ==
  LET Max(S) == CHOOSE x \in S : \A y \in S : x >= y
      missing(i) == {k \in 1..Len(getIngredientDependencies(ings[i])) :
                       getIngredientDependencies(ings[i])[k] \notin SeqRange(ings)}
      bad == {i \in 1..Len(ings) : missing(i) # {}}
  IN IF bad = {} THEN Pass
     ELSE LET i == Max(bad)
          IN Reply(400, "MissingDependency", ings[i],
                   getIngredientDependencies(ings[i])[Max(missing(i))])

\* index.js 165-190
CheckDependencies(ings) ==
  LET missing(i) == {k \in 1..Len(getIngredientDependencies(ings[i])) :
                       getIngredientDependencies(ings[i])[k] \notin SeqRange(ings)}
      bad == {i \in 1..Len(ings) : missing(i) # {}}
  IN IF bad = {} THEN Pass
     ELSE LET i == Min(bad)
          IN Reply(400, "MissingDependency", ings[i],
                   getIngredientDependencies(ings[i])[Min(missing(i))])

\* the incompatibility loop looking at the first candidate only
CheckIncompatibilitiesHeadOnly(ings) ==
  LET present == {k \in 1..Len(getIngredientIncompatibilities(ings[1])) :
                    getIngredientIncompatibilities(ings[1])[k] \in SeqRange(ings)}
  IN IF present = {} THEN Pass
     ELSE Reply(400, "Incompatible", ings[1],
                getIngredientIncompatibilities(ings[1])[Min(present)])

\* the incompatibility loop looking, for each candidate, only at the
\* candidates that come after it in the list
CheckIncompatibilitiesForward(ings) ==
  LET later(i) == {ings[j] : j \in (i + 1)..Len(ings)}
      present(i) == {k \in 1..Len(getIngredientIncompatibilities(ings[i])) :
                       getIngredientIncompatibilities(ings[i])[k] \in later(i)}
      bad == {i \in 1..Len(ings) : present(i) # {}}
  IN IF bad = {} THEN Pass
     ELSE LET i == Min(bad)
          IN Reply(400, "Incompatible", ings[i],
                   getIngredientIncompatibilities(ings[i])[Min(present(i))])

\* index.js 192-210
CheckIncompatibilities(ings) ==
  LET present(i) == {k \in 1..Len(getIngredientIncompatibilities(ings[i])) :
                       getIngredientIncompatibilities(ings[i])[k] \in SeqRange(ings)}
      bad == {i \in 1..Len(ings) : present(i) # {}}
  IN IF bad = {} THEN Pass
     ELSE LET i == Min(bad)
          IN Reply(400, "Incompatible", ings[i],
                   getIngredientIncompatibilities(ings[i])[Min(present(i))])

\* the handler with the incompatibility loop ahead of the dependency loop
ValidateOrderIncompatibilityFirst(order, rows) ==
  IF order.dishId \notin cat.basedishes THEN Reply(400, "UnknownDish", 0, 0)
  ELSE IF order.sizeId \notin DOMAIN cat.sizes THEN Reply(400, "UnknownSize", 0, 0)
  ELSE IF Len(order.ingredients) = 0 THEN Pass
  ELSE IF CheckExistAvail(order.ingredients, rows) # Pass
       THEN CheckExistAvail(order.ingredients, rows)
  ELSE IF CheckSizeLimit(order.ingredients, order.sizeId) # Pass
       THEN CheckSizeLimit(order.ingredients, order.sizeId)
  ELSE IF CheckIncompatibilities(order.ingredients) # Pass
       THEN CheckIncompatibilities(order.ingredients)
  ELSE CheckDependencies(order.ingredients)

\* the handler with the existence and availability loop ahead of the dish
\* and size lookups
ValidateOrderIngredientsFirst(order, rows) ==
  IF Len(order.ingredients) > 0 /\ CheckExistAvail(order.ingredients, rows) # Pass
  THEN CheckExistAvail(order.ingredients, rows)
  ELSE IF order.dishId \notin cat.basedishes THEN Reply(400, "UnknownDish", 0, 0)
  ELSE IF order.sizeId \notin DOMAIN cat.sizes THEN Reply(400, "UnknownSize", 0, 0)
  ELSE IF Len(order.ingredients) = 0 THEN Pass
  ELSE IF CheckSizeLimit(order.ingredients, order.sizeId) # Pass
       THEN CheckSizeLimit(order.ingredients, order.sizeId)
  ELSE IF CheckDependencies(order.ingredients) # Pass
       THEN CheckDependencies(order.ingredients)
  ELSE CheckIncompatibilities(order.ingredients)

\* index.js 129-211: dish, size, then the ingredient checks on a non-empty list
ValidateOrder(order, rows) ==
  IF order.dishId \notin cat.basedishes THEN Reply(400, "UnknownDish", 0, 0)
  ELSE IF order.sizeId \notin DOMAIN cat.sizes THEN Reply(400, "UnknownSize", 0, 0)
  ELSE IF Len(order.ingredients) = 0 THEN Pass
  ELSE IF CheckExistAvail(order.ingredients, rows) # Pass
       THEN CheckExistAvail(order.ingredients, rows)
  ELSE IF CheckSizeLimit(order.ingredients, order.sizeId) # Pass
       THEN CheckSizeLimit(order.ingredients, order.sizeId)
  ELSE IF CheckDependencies(order.ingredients) # Pass
       THEN CheckDependencies(order.ingredients)
  ELSE CheckIncompatibilities(order.ingredients)

\* the handler without its final check
FinalCheckSkipped(order, rows) == Pass

\* index.js 213-228: existence and availability only
FinalCheck(order, rows) ==
  IF Len(order.ingredients) = 0 THEN Pass
  ELSE CheckExistAvail(order.ingredients, rows)

----------------------------------------------------------------------------
(* Request slots *)

Users == {1, 2}

Anchovies == 8

\* the browser sessions; the requests of session s go through slot s
Sessions == {1, 2}

\* req.session before any login: req.user (0: none, passport's
\* session.passport.user), session.method, and whether the session has seen
\* a login (logins 1) and then a TOTP verification (logins 2)
NoSession == [user |-> 0, method |-> "none", logins |-> 0]

NoSessions == [s \in Sessions |-> NoSession]

\* the OrderConfigurator as mounted: no dish, no size (0 for null), no
\* ingredient selected, and the availabilities of the ingredients prop
NoSelection ==
  [dish |-> 0, size |-> 0, selected |-> <<>>, price |-> 0,
   availability |-> SeedDb.availability]

\* a slot no request occupies yet
Idle ==
  [ kind |-> "none", pc |-> "idle", user |-> 0,
    order |-> [dishId |-> 0, sizeId |-> 0, ingredients |-> <<>>, total |-> 0],
    target |-> 0,            \* deleteOrder: the orderId argument
    currentIndex |-> 0,      \* the loop index of both DAO functions
    orderId |-> 0,           \* createOrder: this.lastID of the order insert
    ingRows |-> <<>>,        \* deleteOrder: the loaded ingredient ids
    changes |-> 0,           \* deleteOrder: this.changes of the order delete
    out |-> NoReply,         \* the HTTP response
    rechecked |-> {},        \* the checks the final check of index.js 213-228 ran
    validated |-> SeedDb,    \* the committed database when the final check read
    began |-> FALSE,         \* the DAO call's BEGIN succeeded
    pre |-> SeedDb,          \* db when the call's BEGIN ran
    post |-> SeedDb,         \* db after the call's last statement ran
    rows |-> {},             \* listOrders: the rows of the orders query
    listed |-> {},           \* listOrders: the orders whose ingredients are read
    orders |-> <<>>,         \* listOrders: the list it resolves with
    quiet |-> TRUE ]         \* listOrders: no read of the call saw a write made
                             \* since its first read

\* the storage may fail a statement while its budget of errors lasts
Fails == IF faults > 0 THEN {FALSE, TRUE} ELSE {FALSE}

Inject(fail) == faults' = IF fail THEN faults - 1 ELSE faults

\* a DAO promise rejected with {error: ...}: index.js 234-235 / 261-262
Rejected(msg) == Reply(400, msg, 0, 0)

\* the error path without its db.run('ROLLBACK')
AbortWithoutRollback(r, msg) ==
  req' = [req EXCEPT ![r].pc = "done", ![r].out = Rejected(msg), ![r].post = db]

\* the error path of every statement after BEGIN: db.run('ROLLBACK');
\* reject({error: msg}); return  (dao-orders.js 62-64, 74-76, 90-92,
\* 102-104, 109-111, 137-139, 146-148, 152-154, 158-160, 171-173)
Abort(r, msg) ==
  req' = [req EXCEPT ![r].pc = "rollback", ![r].out = Rejected(msg)]

\* the price the client computes and sends as total: the size's price plus
\* the prices of the selected ingredients (OrderConfigurator price effect)
RECURSIVE PriceOf(_, _)
PriceOf(sizeId, ings) ==
  IF ings = <<>> THEN cat.sizes[sizeId].price
  ELSE cat.ingredients[Head(ings)].price + PriceOf(sizeId, Tail(ings))

----------------------------------------------------------------------------
(* POST /api/orders, index.js 114-240 *)

\* the handler without the return after res.status(400).json(...): the
\* violation is answered and createOrder is called all the same
PostOrderNoReturn(r, user, dishId, sizeId, ings, total) ==
  /\ req[r].pc = "idle"
  /\ LET order == [dishId |-> dishId, sizeId |-> sizeId, ingredients |-> ings, total |-> total]
         res == ValidateOrder(order, getIngredientsByIds(ings))
     IN req' = [req EXCEPT ![r] = [Idle EXCEPT
                   !.kind = "create", !.user = user, !.order = order,
                   !.pc = IF res = Pass THEN "final" ELSE "begin",
                   !.out = IF res = Pass THEN NoReply ELSE res]]
  /\ started' = started + 1
  /\ UNCHANGED <<cat, sess, ui, db, tx, snap, faults>>

\* The request arrives with a body that passed the express-validator
\* checks; index.js 126-211, reading the ingredients table at line 147.
PostOrder(r, user, dishId, sizeId, ings, total) ==
  /\ req[r].pc = "idle"
  /\ LET order == [dishId |-> dishId, sizeId |-> sizeId, ingredients |-> ings, total |-> total]
         res == ValidateOrder(order, getIngredientsByIds(ings))
     IN req' = [req EXCEPT ![r] = [Idle EXCEPT
                   !.kind = "create", !.user = user, !.order = order,
                   !.pc = IF res = Pass THEN "final" ELSE "done",
                   !.out = IF res = Pass THEN NoReply ELSE res]]
  /\ started' = started + 1
  /\ UNCHANGED <<cat, sess, ui, db, tx, snap, faults>>

\* index.js 213-231, reading the ingredients table at line 217
Final(r) ==
  /\ req[r].pc = "final"
  /\ LET res == FinalCheck(req[r].order, getIngredientsByIds(req[r].order.ingredients))
     IN req' = [req EXCEPT ![r].pc = IF res = Pass THEN "begin" ELSE "done",
                           ![r].out = IF res = Pass THEN NoReply ELSE res,
                           ![r].rechecked = IF Len(req[r].order.ingredients) = 0
                                            THEN {} ELSE {"existence", "availability"},
                           ![r].validated = IF tx = 0 THEN db ELSE snap]
  /\ UNCHANGED <<cat, sess, ui, db, tx, snap, faults, started>>

----------------------------------------------------------------------------
(* ordersDao.createOrder, dao-orders.js 48-122 *)

\* the error path of BEGIN with the db.run('ROLLBACK') of the other paths
CreateBeginWithRollback(r) ==
  /\ req[r].pc = "begin"
  /\ \E fail \in Fails :
       /\ Inject(fail)
       /\ IF fail \/ tx # 0
          THEN /\ req' = [req EXCEPT ![r].pc = "rollback",
                                     ![r].out = Rejected("Failed to start transaction"),
                                     ![r].pre = db, ![r].post = db]
               /\ UNCHANGED <<tx, snap>>
          ELSE /\ req' = [req EXCEPT ![r].pc = "insertOrder", ![r].began = TRUE,
                                     ![r].pre = db]
               /\ tx' = r
               /\ snap' = db
  /\ UNCHANGED <<cat, sess, ui, db, started>>

\* BEGIN TRANSACTION fails inside an open transaction; the error path has
\* no ROLLBACK (lines 50-55)
CreateBegin(r) ==
  /\ req[r].pc = "begin"
  /\ \E fail \in Fails :
       /\ Inject(fail)
       /\ IF fail \/ tx # 0
          THEN /\ req' = [req EXCEPT ![r].pc = "done",
                                     ![r].out = Rejected("Failed to start transaction"),
                                     ![r].pre = db, ![r].post = db]
               /\ UNCHANGED <<tx, snap>>
          ELSE /\ req' = [req EXCEPT ![r].pc = "insertOrder", ![r].began = TRUE,
                                     ![r].pre = db]
               /\ tx' = r
               /\ snap' = db
  /\ UNCHANGED <<cat, sess, ui, db, started>>

\* lines 57-81
CreateInsertOrder(r) ==
  /\ req[r].pc = "insertOrder"
  /\ \E fail \in Fails :
       /\ Inject(fail)
       /\ IF fail
          THEN /\ Abort(r, "Failed to create order")
               /\ UNCHANGED db
          ELSE LET id == db.seq + 1
               IN /\ db' = [db EXCEPT !.seq = id,
                               !.orders = @ \cup {[id |-> id, user_id |-> req[r].user,
                                                   dish_id |-> req[r].order.dishId,
                                                   size_id |-> req[r].order.sizeId,
                                                   total |-> req[r].order.total]}]
                  /\ req' = [req EXCEPT ![r].orderId = id,
                                        ![r].currentIndex = 0,
                                        ![r].pc = IF Len(req[r].order.ingredients) = 0
                                                  THEN "commit" ELSE "insertIngredient"]
  /\ UNCHANGED <<cat, sess, ui, tx, snap, started>>

\* the insert as INSERT OR IGNORE: a repeated pair is not an error
CreateInsertIngredientOrIgnore(r) ==
  /\ req[r].pc = "insertIngredient"
  /\ LET row == <<req[r].orderId, req[r].order.ingredients[req[r].currentIndex + 1]>>
     IN /\ db' = [db EXCEPT !.order_ingredients = @ \cup {row}]
        /\ req' = [req EXCEPT ![r].pc = "updateAvailability"]
  /\ UNCHANGED <<cat, sess, ui, tx, snap, faults, started>>

\* lines 98-105: the primary key (order_id, ingredient_id) rejects a repeat
CreateInsertIngredient(r) ==
  /\ req[r].pc = "insertIngredient"
  /\ LET row == <<req[r].orderId, req[r].order.ingredients[req[r].currentIndex + 1]>>
     IN \E fail \in Fails :
          /\ Inject(fail)
          /\ IF fail \/ row \in db.order_ingredients
             THEN /\ Abort(r, "Failed to add ingredients")
                  /\ UNCHANGED db
             ELSE /\ db' = [db EXCEPT !.order_ingredients = @ \cup {row}]
                  /\ req' = [req EXCEPT ![r].pc = "updateAvailability"]
  /\ UNCHANGED <<cat, sess, ui, tx, snap, started>>

\* the decrement without "AND availability > 0"
ReserveUnguarded(availability, id) ==
  IF id \in DOMAIN availability /\ availability[id] # Null
  THEN [availability EXCEPT ![id] = Some(@[1] - 1)]
  ELSE availability

\* the decrement without "id = ?": every tracked ingredient in stock
ReserveAll(availability, id) ==
  [i \in DOMAIN availability |->
     IF availability[i] # Null /\ availability[i][1] > 0
     THEN Some(availability[i][1] - 1) ELSE availability[i]]

\* UPDATE ... SET availability = availability - 1 WHERE id = ? AND
\* availability IS NOT NULL AND availability > 0
Reserve(availability, id) ==
  IF id \in DOMAIN availability /\ availability[id] # Null /\ availability[id][1] > 0
  THEN [availability EXCEPT ![id] = Some(@[1] - 1)]
  ELSE availability

\* lines 106-115
CreateUpdateAvailability(r) ==
  /\ req[r].pc = "updateAvailability"
  /\ \E fail \in Fails :
       /\ Inject(fail)
       /\ IF fail
          THEN /\ Abort(r, "Failed to update availability")
               /\ UNCHANGED db
          ELSE /\ db' = [db EXCEPT !.availability =
                           Reserve(@, req[r].order.ingredients[req[r].currentIndex + 1])]
               /\ req' = [req EXCEPT ![r].currentIndex = @ + 1,
                                     ![r].pc = IF req[r].currentIndex + 1 >= Len(req[r].order.ingredients)
                                               THEN "commit" ELSE "insertIngredient"]
  /\ UNCHANGED <<cat, sess, ui, tx, snap, started>>

\* lines 71-79 and 87-95; COMMIT outside a transaction is an error
CreateCommit(r) ==
  /\ req[r].pc = "commit"
  /\ \E fail \in Fails :
       /\ Inject(fail)
       /\ IF fail \/ tx = 0
          THEN /\ Abort(r, "Failed to commit order")
               /\ UNCHANGED tx
          ELSE /\ tx' = 0
               /\ req' = [req EXCEPT ![r].pc = "done",
                                     ![r].out = Reply(200, "Created", req[r].orderId, 0),
                                     ![r].post = db]
  /\ UNCHANGED <<cat, sess, ui, db, snap, started>>

\* an error path that, after its ROLLBACK, calls createOrder again
RollbackThenRetry(r) ==
  /\ req[r].pc = "rollback"
  /\ db' = IF tx # 0 THEN snap ELSE db
  /\ tx' = 0
  /\ req' = [req EXCEPT ![r].pc = IF req[r].kind = "create" THEN "begin" ELSE "done",
                        ![r].post = IF tx # 0 THEN snap ELSE db]
  /\ UNCHANGED <<cat, sess, ui, snap, faults, started>>

\* db.run('ROLLBACK') of every error path after BEGIN; it undoes whatever
\* transaction is open on the connection
Rollback(r) ==
  /\ req[r].pc = "rollback"
  /\ db' = IF tx # 0 THEN snap ELSE db
  /\ tx' = 0
  /\ req' = [req EXCEPT ![r].pc = "done", ![r].post = IF tx # 0 THEN snap ELSE db]
  /\ UNCHANGED <<cat, sess, ui, snap, faults, started>>

----------------------------------------------------------------------------
(* DELETE /api/orders/:id, index.js 243-268, and ordersDao.deleteOrder,
   dao-orders.js 125-183 *)

\* The request passed isLoggedIn, isTotp and the id check; deleteOrder is
\* called and issues BEGIN TRANSACTION (lines 127-132), which fails inside
\* an open transaction.
DeleteOrder(r, user, orderId) ==
  /\ req[r].pc = "idle"
  /\ \E fail \in Fails :
       /\ Inject(fail)
       /\ IF fail \/ tx # 0
          THEN /\ req' = [req EXCEPT ![r] = [Idle EXCEPT
                            !.kind = "delete", !.user = user, !.target = orderId,
                            !.pc = "done",
                            !.out = Rejected("Failed to start transaction"),
                            !.pre = db, !.post = db]]
               /\ UNCHANGED <<tx, snap>>
          ELSE /\ req' = [req EXCEPT ![r] = [Idle EXCEPT
                            !.kind = "delete", !.user = user, !.target = orderId,
                            !.pc = "d_load", !.began = TRUE, !.pre = db]]
               /\ tx' = r
               /\ snap' = db
  /\ started' = started + 1
  /\ UNCHANGED <<cat, sess, ui, db>>

\* the load going on to the association delete, without the releases
DeleteLoadNoRelease(r) ==
  /\ req[r].pc = "d_load"
  /\ LET rows == SortedSeq({e[2] : e \in {a \in db.order_ingredients :
                                            a[1] = req[r].target}})
     IN req' = [req EXCEPT ![r].ingRows = rows,
                           ![r].currentIndex = 0,
                           ![r].pc = "d_assoc"]
  /\ UNCHANGED <<cat, sess, ui, db, tx, snap, faults, started>>

\* lines 134-141 and 179: SELECT ingredient_id FROM order_ingredients WHERE
\* order_id = ?  (no user in the condition)
DeleteLoad(r) ==
  /\ req[r].pc = "d_load"
  /\ \E fail \in Fails :
       /\ Inject(fail)
       /\ IF fail
          THEN Abort(r, "Failed to get order ingredients")
          ELSE LET rows == SortedSeq({e[2] : e \in {a \in db.order_ingredients :
                                                     a[1] = req[r].target}})
               IN req' = [req EXCEPT ![r].ingRows = rows,
                                     ![r].currentIndex = 0,
                                     ![r].pc = IF Len(rows) = 0 THEN "d_assoc" ELSE "d_restore"]
  /\ UNCHANGED <<cat, sess, ui, db, tx, snap, started>>

\* the increment without "AND availability IS NOT NULL", null counted as 0
ReleaseNullAsZero(availability, id) ==
  IF id \in DOMAIN availability
  THEN [availability EXCEPT ![id] = IF @ = Null THEN Some(1) ELSE Some(@[1] + 1)]
  ELSE availability

\* UPDATE ... SET availability = availability + 1 WHERE id = ? AND
\* availability IS NOT NULL
Release(availability, id) ==
  IF id \in DOMAIN availability /\ availability[id] # Null
  THEN [availability EXCEPT ![id] = Some(@[1] + 1)]
  ELSE availability

\* lines 168-177
DeleteRestore(r) ==
  /\ req[r].pc = "d_restore"
  /\ \E fail \in Fails :
       /\ Inject(fail)
       /\ IF fail
          THEN /\ Abort(r, "Failed to restore ingredient availability")
               /\ UNCHANGED db
          ELSE /\ db' = [db EXCEPT !.availability =
                           Release(@, req[r].ingRows[req[r].currentIndex + 1])]
               /\ req' = [req EXCEPT ![r].currentIndex = @ + 1,
                                     ![r].pc = IF req[r].currentIndex + 1 >= Len(req[r].ingRows)
                                               THEN "d_assoc" ELSE "d_restore"]
  /\ UNCHANGED <<cat, sess, ui, tx, snap, started>>

\* lines 143-149: DELETE FROM order_ingredients WHERE order_id = ?
DeleteAssociations(r) ==
  /\ req[r].pc = "d_assoc"
  /\ \E fail \in Fails :
       /\ Inject(fail)
       /\ IF fail
          THEN /\ Abort(r, "Failed to delete order ingredients")
               /\ UNCHANGED db
          ELSE /\ db' = [db EXCEPT !.order_ingredients = {a \in @ : a[1] # req[r].target}]
               /\ req' = [req EXCEPT ![r].pc = "d_order"]
  /\ UNCHANGED <<cat, sess, ui, tx, snap, started>>

\* the order delete whose error path has no db.run('ROLLBACK')
DeleteOrderRowNoRollback(r) ==
  /\ req[r].pc = "d_order"
  /\ \E fail \in Fails :
       /\ Inject(fail)
       /\ IF fail
          THEN /\ AbortWithoutRollback(r, "Failed to delete order")
               /\ UNCHANGED db
          ELSE LET hit == {o \in db.orders : o.id = req[r].target /\ o.user_id = req[r].user}
               IN /\ db' = [db EXCEPT !.orders = @ \ hit]
                  /\ req' = [req EXCEPT ![r].changes = Cardinality(hit), ![r].pc = "d_commit"]
  /\ UNCHANGED <<cat, sess, ui, tx, snap, started>>

\* the order delete without "AND user_id = ?"
DeleteOrderRowAnyUser(r) ==
  /\ req[r].pc = "d_order"
  /\ LET hit == {o \in db.orders : o.id = req[r].target}
     IN /\ db' = [db EXCEPT !.orders = @ \ hit]
        /\ req' = [req EXCEPT ![r].changes = Cardinality(hit), ![r].pc = "d_commit"]
  /\ UNCHANGED <<cat, sess, ui, tx, snap, faults, started>>

\* lines 150-155: DELETE FROM orders WHERE id = ? AND user_id = ?
DeleteOrderRow(r) ==
  /\ req[r].pc = "d_order"
  /\ \E fail \in Fails :
       /\ Inject(fail)
       /\ IF fail
          THEN /\ Abort(r, "Failed to delete order")
               /\ UNCHANGED db
          ELSE LET hit == {o \in db.orders : o.id = req[r].target /\ o.user_id = req[r].user}
               IN /\ db' = [db EXCEPT !.orders = @ \ hit]
                  /\ req' = [req EXCEPT ![r].changes = Cardinality(hit), ![r].pc = "d_commit"]
  /\ UNCHANGED <<cat, sess, ui, tx, snap, started>>

\* deleteOrder rejecting when the order delete changed no row
DeleteCommitZeroRejects(r) ==
  /\ req[r].pc = "d_commit"
  /\ IF tx = 0 \/ req[r].changes = 0
     THEN /\ Abort(r, IF tx = 0 THEN "Failed to commit deletion" ELSE "Order not found")
          /\ UNCHANGED tx
     ELSE /\ tx' = 0
          /\ req' = [req EXCEPT ![r].pc = "done",
                                ![r].out = Reply(200, "Deleted", req[r].changes, 0),
                                ![r].post = db]
  /\ UNCHANGED <<cat, sess, ui, db, snap, faults, started>>

\* lines 156-163, and the response of index.js 255-259
DeleteCommit(r) ==
  /\ req[r].pc = "d_commit"
  /\ \E fail \in Fails :
       /\ Inject(fail)
       /\ IF fail \/ tx = 0
          THEN /\ Abort(r, "Failed to commit deletion")
               /\ UNCHANGED tx
          ELSE /\ tx' = 0
               /\ req' = [req EXCEPT ![r].pc = "done",
                                     ![r].out = IF req[r].changes = 0
                                                THEN Reply(404, "NotFound", 0, 0)
                                                ELSE Reply(200, "Deleted", req[r].changes, 0),
                                     ![r].post = db]
  /\ UNCHANGED <<cat, sess, ui, db, snap, started>>

----------------------------------------------------------------------------
(* GET /api/orders, index.js 104-111, and ordersDao.listOrders,
   dao-orders.js 8-45 *)

\* one element of the answer: lines 27-36
Listed(o, ingredients) ==
  [id |-> o.id, dishId |-> o.dish_id, sizeId |-> o.size_id,
   sizePrice |-> cat.sizes[o.size_id].price, total |-> o.total,
   ingredients |-> ingredients]

\* orders.sort((a, b) => b.id - a.id): greatest id first
RECURSIVE SortById(_)
SortById(S) ==
  IF S = {} THEN <<>>
  ELSE LET first == CHOOSE x \in S : \A y \in S : y.id <= x.id
       IN <<first>> \o SortById(S \ {first})

\* the error branch of index.js 108-110
ListFailed(r) ==
  req' = [req EXCEPT ![r].pc = "done", ![r].out = Reply(500, "Database error", 0, 0)]

\* the orders query without "WHERE o.user_id = ?"
ListOrdersAllUsers(r, user) ==
  /\ req[r].pc = "idle"
  /\ LET rows == {o \in db.orders : /\ o.dish_id \in cat.basedishes
                                    /\ o.size_id \in DOMAIN cat.sizes}
     IN req' = [req EXCEPT ![r] = [Idle EXCEPT
                   !.kind = "list", !.user = user, !.rows = rows, !.pre = db,
                   !.pc = IF rows = {} THEN "done" ELSE "l_ingredients",
                   !.out = IF rows = {} THEN Reply(200, "Orders", 0, 0) ELSE NoReply]]
  /\ started' = started + 1
  /\ UNCHANGED <<cat, sess, ui, db, tx, snap, faults>>

\* The request passed isLoggedIn; listOrders runs its first query (lines
\* 10-15): the orders of the user that join a dish and a size.  With no
\* row, Promise.all of nothing resolves and the answer is the empty list.
ListOrders(r, user) ==
  /\ req[r].pc = "idle"
  /\ \E fail \in Fails :
       /\ Inject(fail)
       /\ LET rows == {o \in db.orders : /\ o.user_id = user
                                         /\ o.dish_id \in cat.basedishes
                                         /\ o.size_id \in DOMAIN cat.sizes}
              call == [Idle EXCEPT !.kind = "list", !.user = user, !.pre = db]
          IN req' = [req EXCEPT ![r] =
                       IF fail
                       THEN [call EXCEPT !.pc = "done",
                                         !.out = Reply(500, "Database error", 0, 0)]
                       ELSE [call EXCEPT !.rows = rows,
                                         !.pc = IF rows = {} THEN "done" ELSE "l_ingredients",
                                         !.out = IF rows = {} THEN Reply(200, "Orders", 0, 0)
                                                 ELSE NoReply]]
  /\ started' = started + 1
  /\ UNCHANGED <<cat, sess, ui, db, tx, snap>>

\* one of the ingredient queries of lines 20-26, all handed to the
\* connection at once: SELECT i.* FROM order_ingredients oi JOIN ingredients
\* i ... WHERE oi.order_id = ?; after the last one, the sort of line 39
ListIngredients(r, id) ==
  /\ req[r].pc = "l_ingredients"
  /\ id \in {o.id : o \in req[r].rows} \ {e.id : e \in req[r].listed}
  /\ \E fail \in Fails :
       /\ Inject(fail)
       /\ IF fail THEN ListFailed(r)
          ELSE LET o == CHOOSE x \in req[r].rows : x.id = id
                   ingredients == {a[2] : a \in {b \in db.order_ingredients :
                                     b[1] = id /\ b[2] \in DOMAIN cat.ingredients}}
                   listed == req[r].listed \cup {Listed(o, ingredients)}
                   last == Cardinality(listed) = Cardinality(req[r].rows)
               IN req' = [req EXCEPT
                            ![r].listed = listed,
                            ![r].quiet = @ /\ db = req[r].pre,
                            ![r].orders = IF last THEN SortById(listed) ELSE @,
                            ![r].pc = IF last THEN "done" ELSE @,
                            ![r].out = IF last THEN Reply(200, "Orders", 0, 0) ELSE @]
  /\ UNCHANGED <<cat, sess, ui, db, tx, snap, started>>

----------------------------------------------------------------------------
(* The client: OrderConfigurator (client component, part_000) fed by
   GET /api/ingredients (dao-ingredients.js listIngredients) *)

\* the ingredients prop: listIngredients, lines 8-39, each row with the
\* names of its dependencies and of its incompatibilities (ingredient2 of
\* the rows whose ingredient1 it is), and the availability last fetched
Ingredient(i) ==
  [ id |-> i, name |-> cat.ingredients[i].name, price |-> cat.ingredients[i].price,
    availability |-> ui.availability[i],
    dependencies |-> {cat.ingredients[d[2]].name :
                        d \in {e \in cat.ingredient_dependencies : e[1] = i}},
    incompatibilities |-> {cat.ingredients[d[2]].name :
                             d \in {e \in cat.ingredient_incompatibilities : e[1] = i}} ]

\* the names of the selected ingredients
Names(current) == {cat.ingredients[current[k]].name : k \in 1..Len(current)}

\* the price effect, lines 40-47: the selected size's price, if any, plus
\* the prices of the selected ingredients
RECURSIVE IngredientsPrice(_)
IngredientsPrice(current) ==
  IF current = <<>> THEN 0
  ELSE cat.ingredients[Head(current)].price + IngredientsPrice(Tail(current))

Price(size, current) ==
  (IF size = 0 THEN 0 ELSE cat.sizes[size].price) + IngredientsPrice(current)

\* lines 87-101: valid iff no dependency is missing from the selection
checkDependencies(ingredient, current) ==
  ingredient.dependencies \subseteq Names(current)

\* lines 112-126: valid iff no incompatibility is in the selection
checkIncompatibilities(ingredient, current) ==
  ingredient.incompatibilities \cap Names(current) = {}

\* every selected ingredient may be removed
checkIfRequiredByOthersNever(ingredient, current) == TRUE

\* lines 136-147: canRemove iff no selected ingredient lists it as a
\* dependency
checkIfRequiredByOthers(ingredient, current) ==
  \A k \in 1..Len(current) : ingredient.name \notin Ingredient(current[k]).dependencies

\* the selection without the ingredient: filter(i => i.id !== ingredient.id)
Without(current, id) == SelectSeq(current, LAMBDA x : x # id)

\* lines 55-60
handleDishSelect(dish) ==
  /\ ui' = [ui EXCEPT !.dish = dish, !.size = 0, !.selected = <<>>, !.price = 0]
  /\ UNCHANGED <<cat, sess, db, tx, snap, req, faults, started>>

\* the size taken whatever the number of selected ingredients
handleSizeSelectUnchecked(size) ==
  /\ ui' = [ui EXCEPT !.size = size, !.price = Price(size, ui.selected)]
  /\ UNCHANGED <<cat, sess, db, tx, snap, req, faults, started>>

\* lines 68-77: refused (a modal, no change) when more ingredients are
\* selected than the size takes
handleSizeSelect(size) ==
  /\ ui' = IF Len(ui.selected) > cat.sizes[size].max_ingredients THEN ui
           ELSE [ui EXCEPT !.size = size, !.price = Price(size, ui.selected)]
  /\ UNCHANGED <<cat, sess, db, tx, snap, req, faults, started>>

\* lines 155-204; adding with no size selected throws at line 179 or shows
\* the out of stock modal: no change either way
handleIngredientToggle(i) ==
  /\ LET ingredient == Ingredient(i)
         current == ui.selected
         refused ==
           IF i \in SeqRange(current)
           THEN ~checkIfRequiredByOthers(ingredient, current)
           ELSE \/ ingredient.availability # Null /\ ingredient.availability[1] <= 0
                \/ ui.size = 0
                \/ Len(current) >= cat.sizes[ui.size].max_ingredients
                \/ ~checkDependencies(ingredient, current)
                \/ ~checkIncompatibilities(ingredient, current)
         next == IF i \in SeqRange(current) THEN Without(current, i)
                 ELSE Append(current, i)
     IN ui' = IF refused THEN ui
              ELSE [ui EXCEPT !.selected = next, !.price = Price(ui.size, next)]
  /\ UNCHANGED <<cat, sess, db, tx, snap, req, faults, started>>

\* the final validation of handleSubmitOrder, lines 216-233
SubmitAllowed ==
  /\ ui.dish # 0 /\ ui.size # 0
  /\ \A k \in 1..Len(ui.selected) :
        LET ingredient == Ingredient(ui.selected[k])
        IN /\ ~(ingredient.availability # Null /\ ingredient.availability[1] <= 0)
           /\ checkDependencies(ingredient, ui.selected)
           /\ checkIncompatibilities(ingredient, ui.selected)

\* lines 210-245: the order passes the final validation and API.addOrder
\* sends it: POST /api/orders arrives at the server from user 1
handleSubmitOrder(r) ==
  /\ SubmitAllowed
  /\ PostOrder(r, 1, ui.dish, ui.size, ui.selected, ui.price)

\* lines 246-253: the answer is 200, the configurator is reset and the
\* parent fetches the ingredients again (setDirty)
OrderAdded(r) ==
  /\ req[r].pc = "done" /\ req[r].out.status = 200
  /\ ui' = [dish |-> 0, size |-> 0, selected |-> <<>>, price |-> 0,
            availability |-> db.availability]
  /\ req' = [req EXCEPT ![r] = Idle]
  /\ UNCHANGED <<cat, sess, db, tx, snap, faults, started>>

\* lines 254-260: the answer is an error, shown by setError or handleErrors;
\* the selection stays
OrderRefused(r) ==
  /\ req[r].pc = "done" /\ req[r].out.status # 200
  /\ req' = [req EXCEPT ![r] = Idle]
  /\ UNCHANGED <<cat, sess, ui, db, tx, snap, faults, started>>

----------------------------------------------------------------------------
(* The server under concurrent requests *)

\* ingredient ids a request of Spec may list: Olives (unlimited) and
\* Anchovies (1 left, incompatible with Olives)
SpecIds == {5, 8}

\* order ids a delete request of Spec may name: order 4 (seeded, of user 2,
\* with Tuna, Olives, Carrots) and the ids the first two creates get
SpecTargets == {4, 5, 6}

\* the slots are interchangeable: they are taken in order
Free(r) == IF r = 1 THEN TRUE ELSE req[r - 1].pc # "idle"

Init ==
  /\ cat = SeedCatalog
  /\ db = SeedDb
  /\ tx = 0
  /\ snap = SeedDb
  /\ req = [r \in Req |-> Idle]
  /\ faults = 0
  /\ started = 0
  /\ sess = NoSessions
  /\ ui = NoSelection

Post(r) ==
  /\ Free(r)
  /\ started < MaxRequests
  /\ \E ings \in SeqsUpTo(SpecIds, MaxLen) : PostOrder(r, 1, 1, 1, ings, PriceOf(1, ings))

Delete(r) ==
  /\ Free(r)
  /\ started < MaxRequests
  /\ \E user \in Users, orderId \in SpecTargets : DeleteOrder(r, user, orderId)

Step(r) ==
  \/ Post(r)
  \/ Final(r)
  \/ CreateBegin(r)
  \/ CreateInsertOrder(r)
  \/ CreateInsertIngredient(r)
  \/ CreateUpdateAvailability(r)
  \/ CreateCommit(r)
  \/ Rollback(r)
  \/ Delete(r)
  \/ DeleteLoad(r)
  \/ DeleteRestore(r)
  \/ DeleteAssociations(r)
  \/ DeleteOrderRow(r)
  \/ DeleteCommit(r)

\* NReq requests, interleaved statement by statement; the storage itself
\* never fails (a statement fails only for what the database holds)
Next == \E r \in Req : Step(r)

Spec == Init /\ [][Next]_vars

----------------------------------------------------------------------------
(* The same requests on a storage that may fail any statement *)

\* a request of SpecFaulty lists Anchovies only, or deletes order 4
FaultyPost(r) ==
  /\ Free(r)
  /\ \E ings \in SeqsUpTo({Anchovies}, MaxLen) : PostOrder(r, 1, 1, 1, ings, PriceOf(1, ings))

FaultyDelete(r) ==
  /\ Free(r)
  /\ \E user \in Users : DeleteOrder(r, user, 4)

InitFaulty ==
  /\ cat = SeedCatalog
  /\ db = SeedDb
  /\ tx = 0
  /\ snap = SeedDb
  /\ req = [r \in Req |-> Idle]
  /\ faults = MaxFaults
  /\ started = 0
  /\ sess = NoSessions
  /\ ui = NoSelection

NextFaulty ==
  \E r \in Req :
     \/ FaultyPost(r)
     \/ Final(r)
     \/ CreateBegin(r)
     \/ CreateInsertOrder(r)
     \/ CreateInsertIngredient(r)
     \/ CreateUpdateAvailability(r)
     \/ CreateCommit(r)
     \/ Rollback(r)
     \/ FaultyDelete(r)
     \/ DeleteLoad(r)
     \/ DeleteRestore(r)
     \/ DeleteAssociations(r)
     \/ DeleteOrderRow(r)
     \/ DeleteCommit(r)

SpecFaulty == InitFaulty /\ [][NextFaulty]_vars

\* the slots of the requests of SpecLive
LiveSlots == {1, 2}

\* the statements of request r whose callback is pending: all its steps
\* but its arrival
Statement(r) ==
  \/ Final(r)
  \/ CreateBegin(r)
  \/ CreateInsertOrder(r)
  \/ CreateInsertIngredient(r)
  \/ CreateUpdateAvailability(r)
  \/ CreateCommit(r)
  \/ Rollback(r)
  \/ DeleteLoad(r)
  \/ DeleteRestore(r)
  \/ DeleteAssociations(r)
  \/ DeleteOrderRow(r)
  \/ DeleteCommit(r)

\* every database callback eventually fires: sqlite3 runs every statement
\* handed to it and calls back, with an error or without
CallbacksFire == \A r \in LiveSlots : WF_vars(Statement(r))

\* the requests of SpecFaulty, in two slots
NextLive == \E r \in LiveSlots : FaultyPost(r) \/ FaultyDelete(r) \/ Statement(r)

SpecLive == InitFaulty /\ [][NextLive]_vars /\ CallbacksFire

----------------------------------------------------------------------------
(* Longer histories: a slot is taken again once its request is over *)

\* the response has been sent and the request is over
Finish(r) ==
  /\ req[r].pc = "done"
  /\ req' = [req EXCEPT ![r] = Idle]
  /\ UNCHANGED <<cat, sess, ui, db, tx, snap, faults, started>>

NextSeq == \E r \in Req : Step(r) \/ Finish(r)

SpecSeq == Init /\ [][NextSeq]_vars

----------------------------------------------------------------------------
(* One request at a time, over a wider range of request bodies *)

\* ingredient ids a request of SpecEval may list: Mozzarella (requires
\* Tomatoes), Tomatoes (requires Olives), Olives, Anchovies (incompatible
\* with Olives), Carrots, and an id that is in no table
EvalIds == {1, 2, 5, 8, 10, 99}
EvalDishes == {1, 99}
EvalSizes == {1, 2, 99}

\* the seeded database after user 1 ordered a Small Pizza with Anchovies
SoldOutDb ==
  [ SeedDb EXCEPT
      !.availability = Reserve(@, 8),
      !.orders = @ \cup {[id |-> 5, user_id |-> 1, dish_id |-> 1, size_id |-> 1, total |-> 650]},
      !.order_ingredients = @ \cup {<<5, 8>>},
      !.seq = 5 ]

\* the total field of the body: any non-negative number, among them the
\* price the client computes when it knows every listed ingredient
EvalTotals(sizeId, ings) ==
  {0} \cup (IF sizeId \in DOMAIN cat.sizes /\ SeqRange(ings) \subseteq DOMAIN cat.ingredients
            THEN {PriceOf(sizeId, ings)} ELSE {})

InitEval ==
  /\ cat = SeedCatalog
  /\ db \in {SeedDb, SoldOutDb}
  /\ tx = 0
  /\ snap = db
  /\ req = [r \in Req |-> Idle]
  /\ faults = 0
  /\ started = 0
  /\ sess = NoSessions
  /\ ui = NoSelection

PostEval ==
  /\ started = 0
  /\ \E user \in Users, dishId \in EvalDishes, sizeId \in EvalSizes,
        ings \in SeqsUpTo(EvalIds, EvalMaxLen) :
       \E total \in EvalTotals(sizeId, ings) :
          PostOrder(1, user, dishId, sizeId, ings, total)

NextEval ==
  \/ PostEval
  \/ Final(1)
  \/ CreateBegin(1)
  \/ CreateInsertOrder(1)
  \/ CreateInsertIngredient(1)
  \/ CreateUpdateAvailability(1)
  \/ CreateCommit(1)
  \/ Rollback(1)

SpecEval == InitEval /\ [][NextEval]_vars

----------------------------------------------------------------------------
(* One request at a time, over catalogs other than the seeded one *)

\* the seeded catalog with the row (Anchovies, Olives) of
\* ingredient_incompatibilities left out: (Olives, Anchovies) is stored in
\* one direction only
OneWayCatalog ==
  [SeedCatalog EXCEPT !.ingredient_incompatibilities = @ \ {<<8, 5>>}]

\* the seeded catalog with one more row of ingredient_dependencies:
\* Mozzarella requires Tomatoes and Olives
TwoDependenciesCatalog ==
  [SeedCatalog EXCEPT !.ingredient_dependencies = @ \cup {<<1, 5>>}]

\* the seeded catalog with the Small size taking no ingredient at all
NoIngredientCatalog ==
  [SeedCatalog EXCEPT !.sizes[1].max_ingredients = 0]

Catalogs == {SeedCatalog, OneWayCatalog, TwoDependenciesCatalog, NoIngredientCatalog}

\* ingredient ids a request of SpecCat may list: Mozzarella, Tomatoes,
\* Olives, Tuna (requires Olives) and Anchovies
CatIds == {1, 2, 5, 6, 8}
CatSizes == {1, 2}
CatDishes == {1, 3}

InitCat ==
  /\ cat \in Catalogs
  /\ db \in {SeedDb, SoldOutDb}
  /\ tx = 0
  /\ snap = db
  /\ req = [r \in Req |-> Idle]
  /\ faults = 0
  /\ started = 0
  /\ sess = NoSessions
  /\ ui = NoSelection

PostCat ==
  /\ started = 0
  /\ \E user \in Users, dishId \in CatDishes, sizeId \in CatSizes,
        ings \in SeqsUpTo(CatIds, EvalMaxLen) :
       PostOrder(1, user, dishId, sizeId, ings, PriceOf(sizeId, ings))

NextCat ==
  \/ PostCat
  \/ Final(1)
  \/ CreateBegin(1)
  \/ CreateInsertOrder(1)
  \/ CreateInsertIngredient(1)
  \/ CreateUpdateAvailability(1)
  \/ CreateCommit(1)
  \/ Rollback(1)

SpecCat == InitCat /\ [][NextCat]_vars

----------------------------------------------------------------------------
(* Sessions: POST /api/sessions, POST /api/login-totp, DELETE
   /api/sessions/current and the middleware of DELETE /api/orders/:id *)

\* index.js 83-88: req.isAuthenticated()
isLoggedIn(s) == sess[s].user # 0

\* the check of the session method left out
isTotpAlways(s) == TRUE

\* index.js 90-94: req.session.method === 'totp'
isTotp(s) == sess[s].method = "totp"

\* what passport's req.login / req.logout leave of session.method: the
\* session is regenerated (the field is gone) or kept, depending on the
\* passport release installed
Carried(s) == {"none", sess[s].method}

\* POST /api/sessions with a valid username and password, index.js 315-328
\* (with invalid ones the answer is 401 and the session is as before)
Login(s, user) ==
  /\ \E method \in Carried(s) :
       sess' = [sess EXCEPT ![s] = [user |-> user, method |-> method,
                                    logins |-> IF @.logins = 0 THEN 1 ELSE @.logins]]
  /\ UNCHANGED <<cat, ui, db, tx, snap, req, faults, started>>

\* POST /api/login-totp with a valid code, index.js 331-337 (without a
\* login the answer is 401 'Not authorized', with an invalid code passport
\* answers 401; the session is as before in both cases)
LoginTotp(s) ==
  /\ isLoggedIn(s)
  /\ sess' = [sess EXCEPT ![s].method = "totp",
                          ![s].logins = IF @ = 1 THEN 2 ELSE @]
  /\ UNCHANGED <<cat, ui, db, tx, snap, req, faults, started>>

\* DELETE /api/sessions/current, index.js 351-355
Logout(s) ==
  /\ isLoggedIn(s)
  /\ \E method \in Carried(s) :
       sess' = [sess EXCEPT ![s].user = 0, ![s].method = method]
  /\ UNCHANGED <<cat, ui, db, tx, snap, req, faults, started>>

\* a request answered by the middleware, before its handler
Denied(r, status, msg) ==
  /\ req' = [req EXCEPT ![r] = [Idle EXCEPT !.kind = "denied", !.pc = "done",
                                            !.out = Reply(status, msg, 0, 0)]]
  /\ UNCHANGED <<cat, sess, ui, db, tx, snap, faults, started>>

\* DELETE /api/orders/:id from session s, index.js 243-254: isLoggedIn,
\* isTotp, the check of the id parameter, then ordersDao.deleteOrder with
\* req.user.id
DeleteRequest(s, orderId) ==
  /\ req[s].pc = "idle"
  /\ IF ~isLoggedIn(s) THEN Denied(s, 401, "Not authorized")
     ELSE IF ~isTotp(s) THEN Denied(s, 401, "Missing TOTP authentication")
     ELSE IF orderId < 1 THEN Denied(s, 422, "Invalid order ID")
     ELSE DeleteOrder(s, sess[s].user, orderId)

\* order ids a delete request of SpecAuth may name: 0 (not an id) and
\* order 4 (of user 2)
AuthTargets == {0, 4}

InitAuth ==
  /\ cat = SeedCatalog
  /\ db = SeedDb
  /\ tx = 0
  /\ snap = SeedDb
  /\ req = [r \in Req |-> Idle]
  /\ faults = 0
  /\ started = 0
  /\ sess = NoSessions
  /\ ui = NoSelection

NextAuth ==
  \E s \in Sessions :
     \/ \E user \in Users : Login(s, user)
     \/ LoginTotp(s)
     \/ Logout(s)
     \/ started < MaxRequests /\ \E orderId \in AuthTargets : DeleteRequest(s, orderId)
     \/ DeleteLoad(s)
     \/ DeleteRestore(s)
     \/ DeleteAssociations(s)
     \/ DeleteOrderRow(s)
     \/ DeleteCommit(s)
     \/ Finish(s)

SpecAuth == InitAuth /\ [][NextAuth]_vars

----------------------------------------------------------------------------
(* One GET /api/orders while a DELETE /api/orders/:id is in flight *)

\* order ids the delete request of SpecList may name: orders 3 and 4 of
\* user 2
ListTargets == {3, 4}

InitList ==
  /\ cat = SeedCatalog
  /\ db \in {SeedDb, SoldOutDb}
  /\ tx = 0
  /\ snap = db
  /\ req = [r \in Req |-> Idle]
  /\ faults = 0
  /\ started = 0
  /\ sess = NoSessions
  /\ ui = NoSelection

\* slot 1 lists, slot 2 deletes
NextList ==
  \/ \E user \in Users : ListOrders(1, user)
  \/ \E id \in 1..5 : ListIngredients(1, id)
  \/ \E user \in Users, orderId \in ListTargets : DeleteOrder(2, user, orderId)
  \/ DeleteLoad(2)
  \/ DeleteRestore(2)
  \/ DeleteAssociations(2)
  \/ DeleteOrderRow(2)
  \/ DeleteCommit(2)

SpecList == InitList /\ [][NextList]_vars

----------------------------------------------------------------------------
(* One client: the OrderConfigurator of user 1 and the server behind it *)

\* the dishes, sizes and ingredients the user clicks: Pizza and Pasta, Small
\* and Medium, Mozzarella (requires Tomatoes), Tomatoes (requires Olives),
\* Olives, Anchovies (incompatible with Olives) and Carrots
ClientDishes == {1, 2}
ClientSizes == {1, 2}
ClientIds == {1, 2, 5, 8, 10}

\* the configurator is mounted with the ingredients as fetched from the
\* seeded database; another user's order may have been added since
InitClient ==
  /\ cat \in Catalogs
  /\ db \in {SeedDb, SoldOutDb}
  /\ tx = 0
  /\ snap = db
  /\ req = [r \in Req |-> Idle]
  /\ faults = 0
  /\ started = 0
  /\ sess = NoSessions
  /\ ui = NoSelection

\* the handlers in any order, the toggles while a size is selected; one
\* order is submitted, and with no other request on the connection no
\* statement of createOrder fails
NextClient ==
  \/ \E dish \in ClientDishes : handleDishSelect(dish)
  \/ \E size \in ClientSizes : handleSizeSelect(size)
  \/ \E i \in ClientIds : ui.size # 0 /\ handleIngredientToggle(i)
  \/ started = 0 /\ handleSubmitOrder(1)
  \/ Final(1)
  \/ CreateBegin(1)
  \/ CreateInsertOrder(1)
  \/ CreateInsertIngredient(1)
  \/ CreateUpdateAvailability(1)
  \/ CreateCommit(1)
  \/ OrderAdded(1)
  \/ OrderRefused(1)

SpecClient == InitClient /\ [][NextClient]_vars

----------------------------------------------------------------------------
(* Properties *)

\* the committed contents of the database: what a ROLLBACK would leave
Committed == IF tx = 0 THEN db ELSE snap

IsCreate(r) == req[r].kind = "create"
IsDelete(r) == req[r].kind = "delete"
Created(r) == IsCreate(r) /\ req[r].out.v = "Created"

\* number of association rows of a table that reference ingredient i
Holders(rows, i) == Cardinality({a \in rows : a[2] = i})

\* the ingredient ids associated with order id in a table
IngredientsOf(rows, id) == {a[2] : a \in {b \in rows : b[1] = id}}

\* C1: of two concurrent createOrder requests that both list the ingredient
\* with exactly one unit left (Anchovies in the seeded database), at most
\* one is committed: never do two created orders hold that unit together.
C1_AtMostOneCommitted ==
  \A r1, r2 \in Req :
     ~ ( /\ r1 # r2
         /\ Created(r1) /\ Created(r2)
         /\ <<req[r1].orderId, Anchovies>> \in Committed.order_ingredients
         /\ <<req[r2].orderId, Anchovies>> \in Committed.order_ingredients )

\* C2: deleteOrder(userId, orderId) for an existing order of another user,
\* when no statement fails, resolves with 0 rows affected and leaves every
\* availability as it was when the call's transaction began.
C2_ForeignDeleteChangesNothing ==
  \A r \in Req :
     ( /\ IsDelete(r) /\ req[r].pc = "done" /\ req[r].began
       /\ req[r].out.status # 400
       /\ \E o \in req[r].pre.orders : o.id = req[r].target /\ o.user_id # req[r].user )
     => ( /\ req[r].changes = 0
          /\ req[r].out.v = "NotFound"
          /\ req[r].post.availability = req[r].pre.availability )

\* C3: in the committed database, for every tracked ingredient, availability
\* plus the number of stored associations that reference it is constant
\* (its seeded value).
C3_ReservationLedger ==
  \A i \in DOMAIN SeedDb.availability :
     SeedDb.availability[i] # Null =>
        /\ Committed.availability[i] # Null
        /\ Committed.availability[i][1] + Holders(Committed.order_ingredients, i)
             = SeedDb.availability[i][1] + Holders(SeedDb.order_ingredients, i)

\* C4: in every reachable state, inside transactions too, no tracked
\* ingredient has an availability below 0.
C4_AvailabilityNeverNegative ==
  \A i \in DOMAIN db.availability :
     db.availability[i] # Null => db.availability[i][1] >= 0

\* C4 witness: a createOrder whose transaction began with Anchovies at 0
\* ran its conditional decrement on Anchovies
C4_ReserveAtZero ==
  \E r \in Req :
     /\ IsCreate(r) /\ req[r].began
     /\ req[r].pre.availability[Anchovies] = Some(0)
     /\ req[r].currentIndex >= 1
     /\ req[r].order.ingredients[req[r].currentIndex] = Anchovies
     /\ db.availability[Anchovies] = Some(0)

\* the ingredient set an order row was created with, where it is known:
\* the seeded rows, and the list of the request that created the order
CreatedWith(id) ==
  IF id <= SeedDb.seq THEN {IngredientsOf(SeedDb.order_ingredients, id)}
  ELSE {SeqRange(req[r].order.ingredients) : r \in {q \in Req : Created(q) /\ req[q].orderId = id}}

\* C5: every order row of the committed database has exactly the
\* associations it was created with.
C5_AssociationsImmutable ==
  \A o \in Committed.orders :
     \A S \in CreatedWith(o.id) : IngredientsOf(Committed.order_ingredients, o.id) = S

\* C6: a createOrder that fails after its transaction began (at the order
\* insert, an association insert, an availability update or the commit)
\* leaves, once the ROLLBACK of its error path has run, the orders table,
\* the association table and every availability as they were when its
\* transaction began.
C6_FailedCreateRollsBack ==
  \A r \in Req :
     (IsCreate(r) /\ req[r].pc = "done" /\ req[r].began /\ req[r].out.status = 400)
     => req[r].post = req[r].pre

\* C6 witness: the insert of the second ingredient failed after the first
\* ingredient (Anchovies, 1 left) had been reserved, and all was undone
C6_SecondIngredientFailed ==
  \E r \in Req :
     /\ IsCreate(r) /\ req[r].pc = "done" /\ req[r].began
     /\ req[r].out.v = "Failed to add ingredients"
     /\ req[r].currentIndex = 1
     /\ req[r].order.ingredients[1] = Anchovies
     /\ req[r].pre.availability[Anchovies] = Some(1)
     /\ req[r].post = req[r].pre
     /\ tx = 0 /\ db.availability[Anchovies] = Some(1)

\* C7: a successful createOrder followed immediately by deleteOrder of the
\* returned id by the same user (the delete begins on the database the
\* create left) restores every availability to its value before the create
\* and leaves no association row of that order.
C7_RoundTrip ==
  \A c, d \in Req :
     ( /\ Created(c)
       /\ IsDelete(d) /\ req[d].pc = "done" /\ req[d].out.v = "Deleted"
       /\ req[d].target = req[c].orderId /\ req[d].user = req[c].user
       /\ req[d].pre = req[c].post )
     => ( /\ req[d].post.availability = req[c].pre.availability
          /\ IngredientsOf(req[d].post.order_ingredients, req[c].orderId) = {} )

\* C8: every order committed by createOrder stores as total the price of
\* its size plus the prices of its ingredients, whatever accepted body
\* it came from.
C8_TotalIsCatalogPrice ==
  \A r \in Req :
     Created(r) =>
        \A o \in Committed.orders :
           o.id = req[r].orderId =>
              o.total = PriceOf(req[r].order.sizeId, req[r].order.ingredients)

\* every candidate is a row of ingredients and none is sold out
AllKnownInStock(ings) ==
  \A k \in 1..Len(ings) :
     ings[k] \in DOMAIN db.availability /\ db.availability[ings[k]] # Some(0)

\* the request names an existing dish and an existing size
DishAndSizeExist(r) ==
  req[r].order.dishId \in cat.basedishes /\ req[r].order.sizeId \in DOMAIN cat.sizes

\* the request ended without a write: no transaction, database untouched
NothingStored(r) == ~req[r].began /\ db = snap /\ tx = 0

\* C9: every order committed by createOrder has at most
\* size.max_ingredients ingredients; a candidate list longer than that
\* (of existing, in-stock ingredients, for an existing dish and size) is
\* rejected with the size-limit violation and nothing is stored; and the
\* size-limit violation is given for such lists only.
C9_SizeLimit ==
  \A r \in Req :
     IsCreate(r) =>
        /\ Created(r) =>
             /\ Len(req[r].order.ingredients) <= cat.sizes[req[r].order.sizeId].max_ingredients
             /\ Cardinality(IngredientsOf(Committed.order_ingredients, req[r].orderId))
                  <= cat.sizes[req[r].order.sizeId].max_ingredients
        /\ ( /\ req[r].pc = "done" /\ DishAndSizeExist(r)
             /\ ~req[r].began
             /\ AllKnownInStock(req[r].order.ingredients)
             /\ Len(req[r].order.ingredients) > cat.sizes[req[r].order.sizeId].max_ingredients )
           => (req[r].out.v = "SizeLimitExceeded" /\ req[r].out.status = 400 /\ NothingStored(r))
        /\ req[r].out.v = "SizeLimitExceeded" =>
              Len(req[r].order.ingredients) > cat.sizes[req[r].order.sizeId].max_ingredients

\* C9 witness: Small (max 3) with Mozzarella, Tomatoes, Olives, Carrots, four
\* existing, in-stock, compatible, dependency-closed ingredients, was
\* rejected with the size-limit violation
C9_FourOnSmallRejected ==
  /\ req[1].pc = "done"
  /\ req[1].order.sizeId = 1 /\ req[1].order.dishId = 1
  /\ req[1].order.ingredients = <<1, 2, 5, 10>>
  /\ req[1].out = Reply(400, "SizeLimitExceeded", 1, 3)
  /\ NothingStored(1)

\* every dependency of a member of S is in S
DependencyClosed(S) ==
  \A e \in cat.ingredient_dependencies : e[1] \in S => e[2] \in S

\* C10: every order committed by createOrder is dependency-closed; a
\* candidate list with an unmet dependency (that passes the dish, size,
\* existence, availability and size-limit checks, which come first) is
\* rejected with the missing-dependency violation and nothing is stored;
\* and that violation always names a listed ingredient and a dependency of
\* it that is not listed.
C10_DependencyClosed ==
  \A r \in Req :
     IsCreate(r) =>
        /\ Created(r) =>
             /\ DependencyClosed(SeqRange(req[r].order.ingredients))
             /\ DependencyClosed(IngredientsOf(Committed.order_ingredients, req[r].orderId))
        /\ ( /\ req[r].pc = "done" /\ DishAndSizeExist(r)
             /\ ~req[r].began
             /\ AllKnownInStock(req[r].order.ingredients)
             /\ Len(req[r].order.ingredients) <= cat.sizes[req[r].order.sizeId].max_ingredients
             /\ ~DependencyClosed(SeqRange(req[r].order.ingredients)) )
           => (req[r].out.v = "MissingDependency" /\ req[r].out.status = 400 /\ NothingStored(r))
        /\ req[r].out.v = "MissingDependency" =>
             /\ <<req[r].out.a, req[r].out.b>> \in cat.ingredient_dependencies
             /\ req[r].out.a \in SeqRange(req[r].order.ingredients)
             /\ req[r].out.b \notin SeqRange(req[r].order.ingredients)

\* C10 witness: Mozzarella alone on a Medium Pizza was rejected because
\* Mozzarella requires Tomatoes
C10_MozzarellaAloneRejected ==
  /\ req[1].pc = "done"
  /\ req[1].order.dishId = 1 /\ req[1].order.sizeId = 2
  /\ req[1].order.ingredients = <<1>>
  /\ req[1].out = Reply(400, "MissingDependency", 1, 2)
  /\ NothingStored(1)

\* no row of ingredient_incompatibilities has both its ingredients in S
Compatible(S) ==
  \A e \in cat.ingredient_incompatibilities : ~(e[1] \in S /\ e[2] \in S)

\* the candidate list reaches the dependency check: existing dish and size,
\* existing in-stock candidates, no more of them than the size takes
PassesSizeCheck(r) ==
  /\ DishAndSizeExist(r)
  /\ AllKnownInStock(req[r].order.ingredients)
  /\ Len(req[r].order.ingredients) <= cat.sizes[req[r].order.sizeId].max_ingredients

\* C11: no order committed by createOrder holds two incompatible
\* ingredients; a candidate list with both members of a pair that the
\* catalog stores as incompatible (and that passes the checks that come
\* first: dish, size, existence, availability, size limit, dependencies) is
\* rejected with the incompatibility violation wherever the two stand in
\* the list, and nothing is stored; and that violation always names two
\* listed ingredients that the catalog stores as incompatible.
C11_NoIncompatiblePair ==
  \A r \in Req :
     IsCreate(r) =>
        /\ Created(r) =>
             /\ Compatible(SeqRange(req[r].order.ingredients))
             /\ Compatible(IngredientsOf(Committed.order_ingredients, req[r].orderId))
        /\ ( /\ req[r].pc = "done" /\ ~req[r].began
             /\ PassesSizeCheck(r)
             /\ DependencyClosed(SeqRange(req[r].order.ingredients))
             /\ ~Compatible(SeqRange(req[r].order.ingredients)) )
           => (req[r].out.v = "Incompatible" /\ req[r].out.status = 400 /\ NothingStored(r))
        /\ req[r].out.v = "Incompatible" =>
             /\ <<req[r].out.a, req[r].out.b>> \in cat.ingredient_incompatibilities
             /\ req[r].out.a \in SeqRange(req[r].order.ingredients)
             /\ req[r].out.b \in SeqRange(req[r].order.ingredients)

\* C11 witness: Carrots, Anchovies, Olives on a Small Pizza, the incompatible
\* pair standing second and third, was rejected as Anchovies incompatible
\* with Olives
C11_AnchoviesOlivesRejected ==
  /\ req[1].pc = "done"
  /\ req[1].order.dishId = 1 /\ req[1].order.sizeId = 1
  /\ req[1].order.ingredients = <<10, 8, 5>>
  /\ req[1].out = Reply(400, "Incompatible", 8, 5)
  /\ NothingStored(1)

\* the rows of ingredient_incompatibilities stored in one direction only
OneWayRows ==
  {e \in cat.ingredient_incompatibilities :
     <<e[2], e[1]>> \notin cat.ingredient_incompatibilities}

\* C12: when the catalog stores a row (A, B) of incompatible ingredients and
\* no row (B, A), no committed order holds both A and B, and a candidate
\* list with both (that passes the checks that come first) is rejected
\* with the incompatibility violation whichever of A and B comes first.
C12_UndirectedIncompatibility ==
  \A r \in Req : \A e \in OneWayRows :
     ( /\ IsCreate(r)
       /\ e[1] \in SeqRange(req[r].order.ingredients)
       /\ e[2] \in SeqRange(req[r].order.ingredients) )
     => /\ ~Created(r)
        /\ ( /\ req[r].pc = "done" /\ ~req[r].began
             /\ PassesSizeCheck(r)
             /\ DependencyClosed(SeqRange(req[r].order.ingredients)) )
           => (req[r].out.v = "Incompatible" /\ req[r].out.status = 400 /\ NothingStored(r))

\* C12 witness: the catalog stores (Olives, Anchovies) only, and the list
\* Anchovies, Olives, with the second member of the row first, was rejected
C12_AnchoviesFirstRejected ==
  /\ cat = OneWayCatalog
  /\ <<5, 8>> \in OneWayRows
  /\ req[1].pc = "done"
  /\ req[1].order.ingredients = <<8, 5>>
  /\ req[1].out = Reply(400, "Incompatible", 5, 8)
  /\ NothingStored(1)

\* positions of the candidates that are no row of ingredients / are sold out
UnknownAt(ings) == {k \in 1..Len(ings) : ings[k] \notin DOMAIN db.availability}
SoldOutAt(ings) ==
  {k \in 1..Len(ings) : ings[k] \in DOMAIN db.availability /\ db.availability[ings[k]] = Some(0)}

\* the request was answered by the validation of the handler, and names an
\* existing dish and size and at least one ingredient
RejectedOrPassed(r) ==
  /\ IsCreate(r) /\ DishAndSizeExist(r)
  /\ Len(req[r].order.ingredients) > 0
  /\ NothingStored(r)

\* C13 as claimed: existence is decided over the whole list before
\* availability: a list with an unknown id gets the unknown-ingredient
\* violation even when an earlier candidate is out of stock, and a list of
\* known ids with one out of stock gets the out-of-stock violation even
\* when it is too long for the size.
C13_ExistenceBeforeAvailability ==
  \A r \in Req :
     (RejectedOrPassed(r) /\ req[r].pc = "done") =>
        LET ings == req[r].order.ingredients
        IN /\ UnknownAt(ings) # {} => req[r].out.v = "UnknownIngredient"
           /\ (UnknownAt(ings) = {} /\ SoldOutAt(ings) # {}) => req[r].out.v = "OutOfStock"

\* C13 as amended: existence and availability are decided together,
\* candidate by candidate in input order, so the first candidate that is
\* unknown or out of stock gives the violation (unknown-ingredient or
\* out-of-stock for that candidate); then come size capacity, dependency and
\* incompatibility, and the first failing check in that order is reported;
\* a list that fails none goes on to the final check.
C13_PerCandidatePrecedence ==
  \A r \in Req :
     RejectedOrPassed(r) =>
        LET ings == req[r].order.ingredients
            bad == UnknownAt(ings) \cup SoldOutAt(ings)
        IN IF bad # {}
           THEN req[r].out = Reply(400, IF Min(bad) \in UnknownAt(ings)
                                        THEN "UnknownIngredient" ELSE "OutOfStock",
                                   ings[Min(bad)], 0)
           ELSE IF Len(ings) > cat.sizes[req[r].order.sizeId].max_ingredients
           THEN req[r].out.v = "SizeLimitExceeded" /\ req[r].out.status = 400
           ELSE IF ~DependencyClosed(SeqRange(ings))
           THEN req[r].out.v = "MissingDependency" /\ req[r].out.status = 400
           ELSE IF ~Compatible(SeqRange(ings))
           THEN req[r].out.v = "Incompatible" /\ req[r].out.status = 400
           ELSE req[r].out = NoReply /\ req[r].pc \in {"final", "begin"}

\* C13 witness: Anchovies (sold out), then an id of no ingredient, then three
\* more candidates on a Small Pizza: rejected as Anchovies out of stock
C13_OutOfStockBeforeUnknown ==
  /\ db = SoldOutDb
  /\ req[1].pc = "done"
  /\ req[1].order.dishId = 1 /\ req[1].order.sizeId = 1
  /\ req[1].order.ingredients = <<8, 99, 5, 1>>
  /\ req[1].out = Reply(400, "OutOfStock", 8, 0)
  /\ NothingStored(1)

\* C14: a candidate list that passes the existence, availability and size
\* checks and violates both a dependency and an incompatibility is rejected
\* with the missing-dependency violation, never the incompatibility one.
C14_DependencyBeforeIncompatibility ==
  \A r \in Req :
     ( /\ IsCreate(r) /\ PassesSizeCheck(r) /\ NothingStored(r)
       /\ ~DependencyClosed(SeqRange(req[r].order.ingredients))
       /\ ~Compatible(SeqRange(req[r].order.ingredients)) )
     => /\ req[r].pc = "done"
        /\ req[r].out.status = 400
        /\ req[r].out.v = "MissingDependency"

\* C14 witness: Olives, Anchovies (incompatible), Mozzarella (requires
\* Tomatoes, not listed) on a Small Pizza: rejected as Mozzarella requires
\* Tomatoes, although the incompatible pair comes first in the list
C14_BothViolatedDependencyReported ==
  /\ db = SeedDb
  /\ req[1].pc = "done"
  /\ req[1].order.dishId = 1 /\ req[1].order.sizeId = 1
  /\ req[1].order.ingredients = <<5, 8, 1>>
  /\ req[1].out = Reply(400, "MissingDependency", 1, 2)
  /\ NothingStored(1)

\* positions of the candidates with a dependency that is not in the list
UnmetAt(ings) ==
  {k \in 1..Len(ings) :
     \E e \in cat.ingredient_dependencies : e[1] = ings[k] /\ e[2] \notin SeqRange(ings)}

\* C15: the missing-dependency violation names the first candidate in input
\* order that has an unmet dependency, and the first of that candidate's
\* dependencies, in the order the catalog returns them, that is not in the
\* candidate list.
C15_FirstMissingDependency ==
  \A r \in Req :
     req[r].out.v = "MissingDependency" =>
        LET ings == req[r].order.ingredients
            first == ings[Min(UnmetAt(ings))]
            deps == getIngredientDependencies(first)
            absent == {j \in 1..Len(deps) : deps[j] \notin SeqRange(ings)}
        IN /\ UnmetAt(ings) # {}
           /\ req[r].out.a = first
           /\ req[r].out.b = deps[Min(absent)]

\* C15 witness: Mozzarella requires Tomatoes and Olives, Tuna requires
\* Olives; the list Mozzarella, Tuna leaves both with unmet dependencies and
\* Mozzarella with two: the violation names Mozzarella and Tomatoes
C15_MozzarellaTunaNamesTomatoes ==
  /\ cat = TwoDependenciesCatalog
  /\ req[1].pc = "done"
  /\ req[1].order.ingredients = <<1, 6>>
  /\ Cardinality(UnmetAt(req[1].order.ingredients)) = 2
  /\ getIngredientDependencies(1) = <<2, 5>>
  /\ req[1].out = Reply(400, "MissingDependency", 1, 2)

\* positions of the candidates that were sold out when the only request of
\* the behaviour arrived (its own transaction is the only one to write)
SoldOutOnArrival(r) ==
  LET found == IF req[r].began THEN req[r].pre.availability ELSE db.availability
      ings == req[r].order.ingredients
  IN {k \in 1..Len(ings) : ings[k] \in DOMAIN found /\ found[ings[k]] = Some(0)}

\* C16: with no other request in flight, a createOrder whose candidate list
\* has a tracked ingredient with availability 0 is rejected and no order,
\* association or availability changes; the violation is out-of-stock,
\* naming the first such ingredient of the list, whenever the dish and the
\* size exist and no unknown id stands before it.
C16_SoldOutRejected ==
  \A r \in Req :
     (IsCreate(r) /\ SoldOutOnArrival(r) # {}) =>
        LET ings == req[r].order.ingredients
            k == Min(SoldOutOnArrival(r))
        IN /\ req[r].pc = "done"
           /\ req[r].out.status = 400
           /\ NothingStored(r)
           /\ (DishAndSizeExist(r) /\ UnknownAt(ings) \cap 1..k = {})
              => req[r].out = Reply(400, "OutOfStock", ings[k], 0)

\* C16 witness: Anchovies are sold out; Tomatoes, Anchovies on a Medium
\* Pizza was rejected as Anchovies out of stock and the database is as seeded
\* plus the order that took the last Anchovies
C16_AnchoviesSoldOut ==
  /\ db = SoldOutDb
  /\ req[1].pc = "done"
  /\ req[1].order.dishId = 1 /\ req[1].order.sizeId = 2
  /\ req[1].order.ingredients = <<2, 8>>
  /\ req[1].out = Reply(400, "OutOfStock", 8, 0)
  /\ NothingStored(1)

\* C17: a request with an unknown dish id is rejected with the unknown-dish
\* violation, and one with a known dish and an unknown size with the
\* unknown-size violation, whatever its ingredient list contains; nothing
\* is stored; and these two violations are given in those cases only.
C17_DishAndSizeFirst ==
  \A r \in Req :
     IsCreate(r) =>
        /\ req[r].order.dishId \notin cat.basedishes
           => (req[r].pc = "done" /\ req[r].out = Reply(400, "UnknownDish", 0, 0)
               /\ NothingStored(r))
        /\ (req[r].order.dishId \in cat.basedishes /\ req[r].order.sizeId \notin DOMAIN cat.sizes)
           => (req[r].pc = "done" /\ req[r].out = Reply(400, "UnknownSize", 0, 0)
               /\ NothingStored(r))
        /\ req[r].out.v = "UnknownDish" => req[r].order.dishId \notin cat.basedishes
        /\ req[r].out.v = "UnknownSize" => req[r].order.sizeId \notin DOMAIN cat.sizes

\* C17 witness: an unknown dish with a list that has an unknown id, sold-out
\* Anchovies, Olives (incompatible with Anchovies) and Mozzarella without
\* Tomatoes, four candidates on a Small: rejected as unknown dish
C17_UnknownDishWins ==
  /\ db = SoldOutDb
  /\ req[1].pc = "done"
  /\ req[1].order.dishId = 99 /\ req[1].order.sizeId = 1
  /\ req[1].order.ingredients = <<99, 8, 5, 1>>
  /\ req[1].out = Reply(400, "UnknownDish", 0, 0)
  /\ NothingStored(1)

\* C18: with no other request in flight, for an existing dish and size, a
\* createOrder with an empty ingredient list is never rejected and ends with the order committed,
\* without associations and with every availability as it was, also when
\* the size takes 0 ingredients; and for a size that takes 0 ingredients no
\* non-empty list is committed, a list of existing in-stock ingredients
\* being rejected with the size-limit violation.
C18_EmptyListAndZeroSize ==
  \A r \in Req :
     (IsCreate(r) /\ DishAndSizeExist(r)) =>
        LET ings == req[r].order.ingredients
        IN /\ ings = <<>> =>
                /\ req[r].out.status # 400
                /\ db.availability = snap.availability
                /\ req[r].pc = "done" =>
                     /\ Created(r)
                     /\ \E o \in Committed.orders : o.id = req[r].orderId
                     /\ IngredientsOf(Committed.order_ingredients, req[r].orderId) = {}
           /\ (ings # <<>> /\ cat.sizes[req[r].order.sizeId].max_ingredients = 0) =>
                /\ ~Created(r)
                /\ NothingStored(r)
                /\ AllKnownInStock(ings) =>
                     (req[r].pc = "done" /\ req[r].out.v = "SizeLimitExceeded"
                      /\ req[r].out.status = 400)

\* C18 witness: the Small size takes no ingredient, and a Small Salad with
\* an empty list was committed as order 5
C18_EmptyOnZeroSizeAccepted ==
  /\ cat = NoIngredientCatalog
  /\ cat.sizes[1].max_ingredients = 0
  /\ db.availability = SeedDb.availability
  /\ req[1].pc = "done"
  /\ req[1].order.dishId = 3 /\ req[1].order.sizeId = 1
  /\ req[1].order.ingredients = <<>>
  /\ req[1].out = Reply(200, "Created", 5, 0)
  /\ tx = 0
  /\ \E o \in db.orders : o.id = 5 /\ o.size_id = 1 /\ o.dish_id = 3

\* the five ingredient checks of the handler, by name
FiveChecks == {"existence", "availability", "size", "dependency", "incompatibility"}

\* the request is past the final check of index.js 213-228
PastFinalCheck(r) ==
  \/ req[r].pc \in {"begin", "insertOrder", "insertIngredient", "updateAvailability", "commit"}
  \/ req[r].began

\* all five checks hold of the request's list in the current state of the
\* ingredients table and the catalog
AllFiveHold(r) ==
  /\ PassesSizeCheck(r)
  /\ DependencyClosed(SeqRange(req[r].order.ingredients))
  /\ Compatible(SeqRange(req[r].order.ingredients))

\* C19 as claimed: the check made just before createOrder is called re-runs
\* all five ingredient checks.
C19_FinalCheckRunsAllFive ==
  \A r \in Req :
     (IsCreate(r) /\ Len(req[r].order.ingredients) > 0 /\ PastFinalCheck(r))
     => req[r].rechecked = FiveChecks

\* C19 as amended: the check made just before createOrder is called re-runs
\* existence and availability only, on a fresh read of the ingredients
\* table; a request goes on to createOrder only from that check, and only
\* if all five checks hold in the state that check read (size capacity,
\* dependency and incompatibility having been decided by the first
\* validation against catalog tables that no request writes).
C19_PersistedOnlyIfFinalReadHolds ==
  [][\A r \in Req :
       (req[r].pc # "begin" /\ req'[r].pc = "begin")
       => /\ req[r].pc = "final"
          /\ req'[r].rechecked \subseteq {"existence", "availability"}
          /\ Len(req[r].order.ingredients) > 0 => AllFiveHold(r)]_vars

\* C19 witness: a list with Anchovies passed the first validation, another
\* request then took the last Anchovies, and the final check rejected the
\* list as out of stock
C19_FinalCheckRejected ==
  \E r \in Req :
     /\ IsCreate(r) /\ req[r].pc = "done" /\ ~req[r].began
     /\ req[r].rechecked = {"existence", "availability"}
     /\ req[r].out = Reply(400, "OutOfStock", Anchovies, 0)
     /\ db.availability[Anchovies] = Some(0)

\* C20: validation, the order insert and the reservations of a createOrder
\* are one transaction: no other request's commit takes effect between the
\* request's validation and its order insert, so for a request that listed
\* ingredients the committed database is, when its transaction begins, what
\* it was when its validation last read the ingredients table.
C20_NoCommitBetweenValidationAndInsert ==
  \A r \in Req :
     ( /\ IsCreate(r) /\ Len(req[r].order.ingredients) > 0
       /\ req[r].began /\ req[r].orderId # 0 )
     => req[r].pre = req[r].validated

\* the messages of a transaction that could not begin or could not commit
\* (dao-orders.js 52, 74, 90, 129, 158)
TransactionFailures ==
  {"Failed to start transaction", "Failed to commit order", "Failed to commit deletion"}

\* C21: when the transaction of createOrder or deleteOrder cannot begin or
\* cannot commit, the caller receives the persistence failure (HTTP 503),
\* not the status of a validation violation (HTTP 400).
C21_TransactionFailureIs503 ==
  \A r \in Req :
     req[r].out.v \in TransactionFailures => req[r].out.status = 503

\* the order id a deleteOrder call names was in no row of orders when the
\* call was made
TargetAbsent(r) == \A o \in req[r].pre.orders : o.id # req[r].target

\* C22: deleteOrder for an order id that does not exist changes nothing:
\* orders, order_ingredients and every availability are after the call what
\* they were before it; and once its transaction has begun the call
\* resolves with 0 rows affected, which the handler reports as not found.
C22_AbsentOrderNotFound ==
  \A r \in Req :
     (IsDelete(r) /\ req[r].pc = "done" /\ TargetAbsent(r))
     => /\ req[r].post = req[r].pre
        /\ req[r].began => /\ req[r].changes = 0
                           /\ req[r].out = Reply(404, "NotFound", 0, 0)

\* C22 witness: a delete of order 6, which no request had created, was
\* answered not found
C22_DeleteOfOrderSix ==
  \E r \in Req :
     /\ IsDelete(r) /\ req[r].pc = "done" /\ req[r].began /\ TargetAbsent(r)
     /\ req[r].target = 6
     /\ req[r].out = Reply(404, "NotFound", 0, 0)

\* the row of orders a committed createOrder inserted
OrderRowOf(r) ==
  [id |-> req[r].orderId, user_id |-> req[r].user, dish_id |-> req[r].order.dishId,
   size_id |-> req[r].order.sizeId, total |-> req[r].order.total]

\* the order rows that were committed at some time: the seeded ones and
\* those of the creates that were answered 200
KnownOrders == SeedDb.orders \cup {OrderRowOf(r) : r \in {q \in Req : Created(q)}}

\* a deleteOrder call made by the order's owner for that order deleted a row
RemovedByOwner(o) ==
  \E r \in Req :
     /\ IsDelete(r) /\ req[r].target = o.id /\ req[r].user = o.user_id
     /\ req[r].changes = 1

\* C23: an order row is removed only by a deleteOrder call whose userId is
\* the order's owner: whatever deleteOrder calls other users make, the row
\* is still in orders with its owner, dish, size and total unchanged.
C23_OnlyOwnerRemovesOrder ==
  \A o \in KnownOrders : o \in db.orders \/ RemovedByOwner(o)

\* C23 witness: user 1's deleteOrder of order 4, which belongs to user 2,
\* ran to its commit and the row of order 4 is still there
C23_ForeignDeleteLeftRow ==
  \E r \in Req :
     /\ IsDelete(r) /\ req[r].pc = "done" /\ req[r].began
     /\ req[r].user = 1 /\ req[r].target = 4
     /\ req[r].out = Reply(404, "NotFound", 0, 0)
     /\ [id |-> 4, user_id |-> 2, dish_id |-> 3, size_id |-> 3, total |-> 1160] \in db.orders

\* the answers of index.js 126-228 to a body that violates a constraint
Violations ==
  {"UnknownDish", "UnknownSize", "UnknownIngredient", "OutOfStock",
   "SizeLimitExceeded", "MissingDependency", "Incompatible"}

\* C24: a createOrder request that ends with a validation violation has
\* performed no write: it is over without a transaction having been begun
\* or an order inserted for it, and every step the request took before a
\* transaction was begun for it left orders, order_ingredients, the
\* availabilities and the connection's transaction as they were.
C24_ViolationWritesNothing ==
  [][\A r \in Req :
       /\ req'[r].out.v \in Violations
          => (req'[r].pc = "done" /\ ~req'[r].began /\ req'[r].orderId = 0)
       /\ (req'[r] # req[r] /\ req'[r].kind = "create" /\ ~req'[r].began)
          => (db' = db /\ tx' = tx /\ snap' = snap)]_vars

\* C24 witness: a list with Olives and Anchovies was rejected as
\* incompatible while the database was as seeded
C24_IncompatibleListRejected ==
  \E r \in Req :
     /\ IsCreate(r) /\ req[r].pc = "done" /\ ~req[r].began
     /\ req[r].order.ingredients = <<5, 8>>
     /\ req[r].out.v = "Incompatible"
     /\ db = SeedDb /\ tx = 0

\* C25: an unlimited ingredient (availability null) stays unlimited after
\* any sequence of createOrder and deleteOrder calls that include it: the
\* reservation does not decrement it and the release does not increment it.
C25_UnlimitedStaysNull ==
  \A i \in DOMAIN SeedDb.availability :
     SeedDb.availability[i] = Null => db.availability[i] = Null

\* C25 witness: an order with Olives (unlimited) was created and committed,
\* a deleteOrder that loaded Olives ran its releases and committed, and
\* the availability of Olives is still null
C25_OlivesReservedAndReleased ==
  /\ \E r \in Req : Created(r) /\ 5 \in SeqRange(req[r].order.ingredients)
  /\ \E r \in Req : /\ IsDelete(r) /\ req[r].pc = "done" /\ req[r].out.v \in {"Deleted", "NotFound"}
                    /\ 5 \in SeqRange(req[r].ingRows)
  /\ db.availability[5] = Null

\* C26: with the seeded catalog, createOrder for dish Pizza (1), size
\* Medium (2) and ingredients [Mozzarella (1), Tomatoes (2)] is accepted,
\* and afterwards the availability of Mozzarella is 2.
C26_ScenarioA ==
  ( /\ IsCreate(1) /\ req[1].pc = "done"
    /\ snap = SeedDb
    /\ req[1].order.dishId = 1 /\ req[1].order.sizeId = 2
    /\ req[1].order.ingredients = <<1, 2>> )
  => /\ req[1].out.v = "Created"
     /\ db.availability[1] = Some(2)

\* C27: a successful createOrder with no concurrent request decreases the
\* availability of each tracked ingredient of the order by exactly 1,
\* inserts exactly one order row and exactly one association row per listed
\* ingredient, and leaves every other availability and every other order
\* as it was.
C27_EffectOfCreate ==
  \A r \in Req :
     Created(r)
     => LET pre == req[r].pre
            post == req[r].post
            ings == req[r].order.ingredients
            rows == {<<req[r].orderId, i>> : i \in SeqRange(ings)}
        IN /\ db = post
           /\ \A i \in DOMAIN pre.availability :
                 post.availability[i] =
                    IF i \in SeqRange(ings) /\ pre.availability[i] # Null
                    THEN Some(pre.availability[i][1] - 1)
                    ELSE pre.availability[i]
           /\ OrderRowOf(r) \notin pre.orders
           /\ post.orders = pre.orders \cup {OrderRowOf(r)}
           /\ rows \cap pre.order_ingredients = {}
           /\ post.order_ingredients = pre.order_ingredients \cup rows
           /\ Cardinality(rows) = Len(ings)

\* C27 witness: a Medium Pizza with Mozzarella, Tomatoes and Olives was
\* created on the seeded database and Mozzarella went from 3 to 2
C27_MozzarellaTomatoesOlives ==
  /\ Created(1)
  /\ req[1].pre = SeedDb
  /\ req[1].order.sizeId = 2
  /\ req[1].order.ingredients = <<1, 2, 5>>
  /\ db.availability[1] = Some(2)
  /\ {<<5, 1>>, <<5, 2>>, <<5, 5>>} \subseteq db.order_ingredients

\* C28: ordersDao.deleteOrder is invoked by the HTTP layer only for a
\* session that is authenticated and whose method is 'totp', with the id of
\* the session's user; a session's method becomes 'totp' only by a TOTP
\* verification performed while the session is logged in; so every order
\* cancellation is preceded by a login and then a TOTP verification in the
\* same session.
C28_CancelOnlyAfterLoginThenTotp ==
  [][/\ \A s \in Sessions :
          (req[s].kind # "delete" /\ req'[s].kind = "delete")
          => /\ sess[s].user # 0 /\ req'[s].user = sess[s].user
             /\ sess[s].method = "totp"
             /\ sess[s].logins = 2
     /\ \A s \in Sessions :
          (sess[s].method # "totp" /\ sess'[s].method = "totp")
          => /\ sess[s].user # 0 /\ sess'[s].user = sess[s].user
             /\ sess[s].logins >= 1 /\ sess'[s].logins = 2]_vars

\* C28 witness: user 2 logged in and verified a TOTP code in session 1, and
\* the session's cancellation of order 4 was carried out; session 2, logged
\* in without TOTP, was refused
C28_CancelledAfterTotp ==
  /\ sess[1] = [user |-> 2, method |-> "totp", logins |-> 2]
  /\ IsDelete(1) /\ req[1].pc = "done" /\ req[1].target = 4
  /\ req[1].out = Reply(200, "Deleted", 1, 0)
  /\ sess[2].user # 0 /\ sess[2].method = "none"
  /\ req[2].out = Reply(401, "Missing TOTP authentication", 0, 0)

\* the availabilities after the first k of the loaded ingredient ids were
\* released, one at a time in the order loaded
RECURSIVE ReleasedUpTo(_, _, _)
ReleasedUpTo(availability, ids, k) ==
  IF k = 0 THEN availability
  ELSE Release(ReleasedUpTo(availability, ids, k - 1), ids[k])

\* what a deleteOrder call has done when it is about to run the statement
\* it is at: the releases made so far, whether the associations of the
\* order are deleted, whether the order row of the caller is deleted
DeleteProgress(r, released, associationsGone, orderGone) ==
  LET pre == req[r].pre
  IN [pre EXCEPT
        !.availability = ReleasedUpTo(@, req[r].ingRows, released),
        !.order_ingredients = IF associationsGone
                              THEN {a \in @ : a[1] # req[r].target} ELSE @,
        !.orders = IF orderGone
                   THEN {o \in @ : ~(o.id = req[r].target /\ o.user_id = req[r].user)}
                   ELSE @]

\* the ingredient ids of the order's associations when the call began
LoadedAtBegin(r) ==
  SortedSeq({a[2] : a \in {e \in req[r].pre.order_ingredients : e[1] = req[r].target}})

\* C29: a deleteOrder execution that commits does its steps in the order
\* begin, load the order's ingredient ids, release each loaded ingredient
\* once, one at a time, delete the order's associations, delete the order
\* row scoped by order id and user id, commit: no release comes after the
\* association delete, and the order row is not deleted before the
\* associations.
C29_DeleteStepOrder ==
  \A r \in Req :
     (IsDelete(r) /\ req[r].began /\ req[r].out.status # 400)
     => LET n == Len(req[r].ingRows)
        IN /\ req[r].pc # "d_load" => req[r].ingRows = LoadedAtBegin(r)
           /\ req[r].pc = "d_load" => db = req[r].pre
           /\ req[r].pc = "d_restore"
                => /\ req[r].currentIndex < n
                   /\ db = DeleteProgress(r, req[r].currentIndex, FALSE, FALSE)
           /\ req[r].pc = "d_assoc" => db = DeleteProgress(r, n, FALSE, FALSE)
           /\ req[r].pc = "d_order" => db = DeleteProgress(r, n, TRUE, FALSE)
           /\ req[r].pc = "d_commit" => db = DeleteProgress(r, n, TRUE, TRUE)
           /\ req[r].pc = "done" => req[r].post = DeleteProgress(r, n, TRUE, TRUE)

\* C29 witness: user 2's deleteOrder of order 4 committed: Olives, Tuna and
\* Carrots were loaded, Tuna went from 2 to 3, and the associations and the
\* row of order 4 are gone
C29_OrderFourDeleted ==
  \E r \in Req :
     /\ IsDelete(r) /\ req[r].pc = "done" /\ req[r].user = 2 /\ req[r].target = 4
     /\ req[r].pre = SeedDb
     /\ req[r].out = Reply(200, "Deleted", 1, 0)
     /\ req[r].ingRows = <<5, 6, 10>>
     /\ req[r].post.availability[6] = Some(3)
     /\ \A a \in req[r].post.order_ingredients : a[1] # 4
     /\ \A o \in req[r].post.orders : o.id # 4

\* the messages of a deleteOrder step that failed after BEGIN
\* (dao-orders.js 138, 147, 153, 159, 172)
DeleteFailures ==
  {"Failed to get order ingredients", "Failed to restore ingredient availability",
   "Failed to delete order ingredients", "Failed to delete order",
   "Failed to commit deletion"}

\* C30: a deleteOrder that fails at a step after its transaction began
\* (the load of the ingredient ids, a release, the association delete, the
\* order delete or the commit) is rejected, and once the ROLLBACK of its
\* error path has run the orders table, the association table and every
\* availability are what they were before the call.
C30_FailedDeleteRollsBack ==
  \A r \in Req :
     (IsDelete(r) /\ req[r].began /\ req[r].out.v \in DeleteFailures)
     => /\ req[r].out.status = 400
        /\ req[r].pc \in {"rollback", "done"}
        /\ req[r].pc = "done" => req[r].post = req[r].pre

\* C30 witness: user 2's deleteOrder of order 4 failed at the order delete,
\* after the three releases and the association delete, and all was undone
C30_OrderDeleteFailed ==
  \E r \in Req :
     /\ IsDelete(r) /\ req[r].pc = "done" /\ req[r].began
     /\ req[r].user = 2 /\ req[r].target = 4
     /\ req[r].out.v = "Failed to delete order"
     /\ req[r].ingRows = <<5, 6, 10>>
     /\ req[r].post = req[r].pre
     /\ tx = 0 /\ db.availability[6] = Some(2) /\ <<4, 6>> \in db.order_ingredients

\* the list whose elements the loop of a DAO call goes through
LoopList(r) == IF IsCreate(r) THEN req[r].order.ingredients ELSE req[r].ingRows

\* C31: if every database callback eventually fires, every createOrder and
\* deleteOrder call eventually settles, and settles once: the answer, once
\* given, is never replaced; each step that reserves or releases an
\* ingredient moves the loop index forward by one, within the list, so that
\* no element is processed twice; and a call that is over takes no further
\* step (a failed call is not run again).
C31_SettlesOnce ==
  /\ \A r \in Req : (req[r].pc # "idle") ~> (req[r].pc = "done")
  /\ [][\A r \in Req :
          /\ req[r].out # NoReply => req'[r].out = req[r].out
          /\ req[r].pc = "done" => req'[r] = req[r]
          /\ req[r].pc # "idle"
             => /\ req'[r].currentIndex \in {req[r].currentIndex, req[r].currentIndex + 1}
                /\ req'[r].currentIndex <= Len(LoopList(r)) \/ req[r].pc = "d_load"
          /\ (req[r].pc \in {"updateAvailability", "d_restore"} /\ req'[r].out = NoReply
              /\ req'[r] # req[r])
             => req'[r].currentIndex = req[r].currentIndex + 1]_vars

\* C31 witness: a createOrder with one ingredient was rejected at its
\* commit, after the ingredient had been processed, and is over
C31_RejectedAtCommit ==
  \E r \in Req :
     /\ IsCreate(r) /\ req[r].pc = "done"
     /\ req[r].out = Rejected("Failed to commit order")
     /\ req[r].currentIndex = 1 /\ Len(req[r].order.ingredients) = 1

HasRepeat(ings) == \E i, j \in 1..Len(ings) : i < j /\ ings[i] = ings[j]

\* C33: no order has two association rows for one ingredient: a
\* createOrder request whose list names an ingredient id twice is never
\* committed; if it passed validation it is rejected at the second insert
\* of the pair, and when it is over orders, order_ingredients and every
\* availability are what they were before the request, the availability
\* decremented for the first occurrence included.
C33_RepeatedIngredientNeverCommits ==
  \A r \in Req :
     (IsCreate(r) /\ HasRepeat(req[r].order.ingredients))
     => /\ req[r].out.v # "Created"
        /\ \A a, b \in db.order_ingredients : (a[1] = b[1] /\ a[2] = b[2]) => a = b
        /\ req[r].pc = "done"
           => /\ tx = 0 /\ db = snap
              /\ req[r].began => /\ req[r].out = Rejected("Failed to add ingredients")
                                 /\ req[r].post = req[r].pre

\* C33 witness: a list naming Anchovies (1 left) twice passed validation,
\* the first Anchovies was reserved, the second insert was refused, and
\* the availability of Anchovies is 1 again
C33_AnchoviesTwice ==
  /\ IsCreate(1) /\ req[1].pc = "done" /\ req[1].began
  /\ req[1].order.ingredients = <<8, 8>>
  /\ req[1].currentIndex = 1
  /\ req[1].out = Rejected("Failed to add ingredients")
  /\ db = SeedDb /\ db.availability[8] = Some(1)

\* request r takes the step that issues its BEGIN TRANSACTION
IssuesBegin(r) ==
  \/ req[r].pc = "begin" /\ req'[r] # req[r]
  \/ req[r].pc = "idle" /\ req'[r].kind = "delete"

\* C34: on the shared connection at most one transaction is open at a
\* time, and a request never disturbs another request's open transaction:
\* a createOrder or deleteOrder whose BEGIN is issued while another
\* request's transaction is open is rejected without a write and without a
\* ROLLBACK; the tables are written only by the request whose transaction
\* is open, and a transaction is ended (COMMIT or ROLLBACK) only by the
\* request that began it.
C34_TransactionsDoNotInterfere ==
  [][\A r \in Req :
       /\ (IssuesBegin(r) /\ tx # 0)
          => /\ req'[r].pc = "done" /\ ~req'[r].began
             /\ req'[r].out = Rejected("Failed to start transaction")
             /\ db' = db /\ tx' = tx /\ snap' = snap
       /\ (IssuesBegin(r) /\ tx = 0 /\ req'[r].began) => tx' = r
       /\ (req'[r] # req[r] /\ (db' # db \/ (tx # 0 /\ tx' # tx)))
          => /\ tx = r
             /\ tx' # tx => req[r].pc \in {"commit", "d_commit", "rollback"}]_vars

\* C34 witness: with no storage error so far, a request was refused its
\* BEGIN while the other request's transaction, which has inserted its
\* order, is still open and untouched
C34_BeginRefusedDuringTransaction ==
  \E r1, r2 \in Req :
     /\ faults = MaxFaults
     /\ tx = r1 /\ req[r1].began /\ req[r1].orderId # 0 /\ req[r1].out = NoReply
     /\ snap = req[r1].pre /\ db # snap
     /\ req[r2].pc = "done" /\ ~req[r2].began
     /\ req[r2].out = Rejected("Failed to start transaction")

\* C35: validation never acts on uncommitted data of another request: a
\* createOrder request is answered out of stock for an ingredient only if
\* that ingredient's committed availability was 0 at some moment during
\* the request; for a request refused by its first read of the ingredients
\* table, which is its only step, that moment is the read (the committed
\* availabilities being what a ROLLBACK would leave).
C35_OutOfStockOnlyIfCommitted ==
  [][\A r \in Req :
       (req[r].pc = "idle" /\ req'[r].out.v = "OutOfStock")
       => Committed.availability[req'[r].out.a] = Some(0)]_vars

\* C36: whatever handleDishSelect, handleSizeSelect and
\* handleIngredientToggle calls were made (the toggles while a size is
\* selected), the selection of the OrderConfigurator has at most
\* max_ingredients entries of the selected size and holds every dependency
\* of each of its ingredients.
C36_SelectionWithinSizeAndClosed ==
  /\ ui.size # 0 => Len(ui.selected) <= cat.sizes[ui.size].max_ingredients
  /\ \A k \in 1..Len(ui.selected) :
        \A d \in cat.ingredient_dependencies :
           d[1] = ui.selected[k] => d[2] \in SeqRange(ui.selected)

\* a Small pizza is full with Olives, Tomatoes and Mozzarella, each needed
\* by the next
C36_FullSmallWithChain ==
  /\ ui.size = 1
  /\ ui.selected = <<5, 2, 1>>
  /\ Len(ui.selected) = cat.sizes[1].max_ingredients

\* every stored incompatibility is stored in both directions
Symmetric(pairs) == \A e \in pairs : <<e[2], e[1]>> \in pairs

\* C37: over a catalog whose incompatibilities are stored in both
\* directions, an order that handleSubmitOrder sent passes the server's size
\* limit, dependency and incompatibility checks, and its total is the price
\* of its size plus the prices of its ingredients.
C37_SubmittedOrderPassesServerChecks ==
  (IsCreate(1) /\ Symmetric(cat.ingredient_incompatibilities)) =>
     /\ CheckSizeLimit(req[1].order.ingredients, req[1].order.sizeId) = Pass
     /\ CheckDependencies(req[1].order.ingredients) = Pass
     /\ CheckIncompatibilities(req[1].order.ingredients) = Pass
     /\ req[1].out.v \notin {"SizeLimitExceeded", "MissingDependency", "Incompatible"}
     /\ req[1].order.total = PriceOf(req[1].order.sizeId, req[1].order.ingredients)

\* a Small Pizza with Olives, Tomatoes and Mozzarella was submitted at
\* 7.20 and created
C37_FullSmallCreated ==
  /\ IsCreate(1) /\ Symmetric(cat.ingredient_incompatibilities)
  /\ req[1].order = [dishId |-> 1, sizeId |-> 1, ingredients |-> <<5, 2, 1>>, total |-> 720]
  /\ req[1].out.v = "Created"

====
